---- MODULE Spec2Model ----
(***************************************************************************)
(* The bounding-box-splitting retrieval loop of the two WFS clients of    *)
(* the repository: WFS.get_feature (LK_WFS.py) and WFSClient.get_features *)
(* (LK_WFS_v2.py), run against a feature server that holds NFeat point    *)
(* features, answers GetFeature with the features that intersect the      *)
(* requested bbox, in storage order, and truncates every answer to its    *)
(* advertised cap (the CountDefault constraint).                          *)
(*                                                                         *)
(* Coordinates are Python floats.  They are counted here in units of one  *)
(* float spacing (all coordinates of a run lie in one binade), so that    *)
(* maxx - minx and (maxx - minx) / 2 are exact and minx + half rounds to  *)
(* the nearest float, ties to even.  The lists the clients keep hold the  *)
(* coordinates as strings: a string is modelled by its shape ("int" for   *)
(* '570000', "float" for '570000.0') and the number it spells.            *)
(***************************************************************************)
EXTENDS Integers, Sequences, FiniteSets, TLC

\* ---------------------------------------------------------------- bounds
\* largest coordinate of a bbox or a feature
MaxCoord == 4
\* number of features the server holds
NFeat == 3
\* splits one call may perform before the model stops following it
MaxSplits == 3

\* ------------------------------------------------------ program constants
\* gdf.columns = [col[:30] for col in gdf.columns]
NameLimit == 30
\* self.maxfeatures = self.operations['MaxFeatures'] * .98   (in percent)
MaxFeaturesPct == 98
\* self.operations['MaxFeatures'] = 10000
DefaultMaxFeatures == 10000

VARIABLES
    cls,             \* which client: "WFS" or "WFSClient"
    kwargs,          \* the keyword arguments of the constructor
    capabilities,    \* the GetCapabilities document of the server
    init_requests,   \* the requests __init__ sent, in order
    version,         \* self.version
    operations,      \* the operation names of self.operations
    feature_types,   \* the names of self.feature_types / self.feature_list
    default_bbox,    \* self.__default_bbox
    bbox_crs,        \* the CRS the coordinates of self.bboxes are in
    missing_default_bbox, \* self.__missing_default_bbox
    self_clip_gdf,   \* the attribute self.clip_gdf
    kw_clip_gdf,     \* the clip_gdf option of the running call
    feature_name,    \* the feature type of the running call
    called,          \* the feature types get_feature was called for so far
    error,           \* the exception that left __init__ or the call
    result,          \* the frame the call returned
    hits_advertised, \* the capabilities list resultType=hits for GetFeature
    cap,             \* CountDefault of the capabilities; the server's cap
    feats,           \* the server's features: id -> position
    maxfeatures_kw,  \* the maxfeatures the caller gave at construction
    maxfeatures,     \* self.maxfeatures, in hundredths
    self_bboxes,     \* self.bboxes: None or a list of bboxes
    self_count,      \* the attribute self.count
    params_count,    \* the row cap (maxfeatures / count) held in self.__params
    params_typename, \* the typename entry held in self.__params
    describe,        \* the DescribeFeatureType request of the call
    kw_count,        \* the count option of the running call
    pc,              \* position of the call
    bboxes,          \* the local list bboxes of get_feature
    idx,             \* position of the for loop in bboxes
    gdfs,            \* the local list gdfs
    leaves,          \* the Rects whose record sets are in gdfs
    gdf,             \* the frame after concat and drop_duplicates
    hits_exact,      \* every hits exchange of the call was answered exactly
    pass,            \* the last pass of the loop: Rect, count, exchanges
    race             \* two calls at once: self.__params and each call's locals

vars == <<cls, kwargs, capabilities, init_requests, version, operations,
          feature_types, default_bbox, bbox_crs, missing_default_bbox,
          self_clip_gdf,
          kw_clip_gdf, feature_name, called, error, result,
          hits_advertised, cap, feats, maxfeatures_kw, maxfeatures,
          self_bboxes, self_count, params_count, params_typename, describe,
          kw_count, pc, bboxes, idx, gdfs, leaves, gdf, hits_exact, pass,
          race>>

\* what a constructed client and its server never change, but for the
\* threshold
fixed == <<cls, kwargs, capabilities, init_requests, version, operations,
           feature_types, hits_advertised, cap, feats, maxfeatures_kw>>

\* what a constructed client and its server never change
session == <<fixed, maxfeatures>>

\* the bbox attributes: set by __init__, seeded by the first call
seed == <<self_bboxes, default_bbox, bbox_crs, missing_default_bbox>>

\* the clip option and the feature type of the running call
options == <<self_clip_gdf, kw_clip_gdf, feature_name, called>>

\* ------------------------------------------------------------ Python values
None == <<"None">>
Unset == <<"unset">>
PyInt(n) == <<"int", n>>

\* str(b) of an int b: '570000'
str_int(n) == <<"int", n>>
\* str(x) of a float x: '570000.0'
str_float(x) == <<"float", x>>
\* float(s)
float(s) == s[2]

Min(a, b) == IF a <= b THEN a ELSE b

\* minx + ((maxx - minx) / 2) in float arithmetic: the difference and its half
\* are exact, the sum is rounded to the nearest float, ties to even
Midpoint(lo, hi) ==
    LET d == (hi - lo) \div 2
    IN  IF (hi - lo) % 2 = 0 THEN lo + d
        ELSE IF (lo + d) % 2 = 0 THEN lo + d ELSE lo + d + 1

\* __split_bbox with the second half of the x-split left as the whole Rect
split_bbox_whole(bbox) ==
    LET minx == float(bbox[1])
        miny == float(bbox[2])
        maxx == float(bbox[3])
        maxy == float(bbox[4])
    IN  IF (maxx - minx) < (maxy - miny)
        THEN << <<str_float(minx), str_float(miny), str_float(maxx),
                  str_float(Midpoint(miny, maxy))>>,
                <<str_float(minx), str_float(Midpoint(miny, maxy)),
                  str_float(maxx), str_float(maxy)>> >>
        ELSE << <<str_float(minx), str_float(miny),
                  str_float(Midpoint(minx, maxx)), str_float(maxy)>>,
                <<str_float(minx), str_float(miny),
                  str_float(maxx), str_float(maxy)>> >>

\* __split_bbox with the y-split cut at (maxy - miny) / 2, miny not added
split_bbox_offset(bbox) ==
    LET minx == float(bbox[1])
        miny == float(bbox[2])
        maxx == float(bbox[3])
        maxy == float(bbox[4])
    IN  IF (maxx - minx) < (maxy - miny)
        THEN << <<str_float(minx), str_float(miny), str_float(maxx),
                  str_float(Midpoint(miny, maxy) - miny)>>,
                <<str_float(minx), str_float(Midpoint(miny, maxy) - miny),
                  str_float(maxx), str_float(maxy)>> >>
        ELSE << <<str_float(minx), str_float(miny),
                  str_float(Midpoint(minx, maxx)), str_float(maxy)>>,
                <<str_float(Midpoint(minx, maxx)), str_float(miny),
                  str_float(maxx), str_float(maxy)>> >>

\* __split_bbox with <= in place of < : a square is split on the y-extent
split_bbox_tie(bbox) ==
    LET minx == float(bbox[1])
        miny == float(bbox[2])
        maxx == float(bbox[3])
        maxy == float(bbox[4])
    IN  IF (maxx - minx) <= (maxy - miny)
        THEN << <<str_float(minx), str_float(miny), str_float(maxx),
                  str_float(Midpoint(miny, maxy))>>,
                <<str_float(minx), str_float(Midpoint(miny, maxy)),
                  str_float(maxx), str_float(maxy)>> >>
        ELSE << <<str_float(minx), str_float(miny),
                  str_float(Midpoint(minx, maxx)), str_float(maxy)>>,
                <<str_float(Midpoint(minx, maxx)), str_float(miny),
                  str_float(maxx), str_float(maxy)>> >>

\* __split_bbox of both clients
split_bbox(bbox) ==
    LET minx == float(bbox[1])
        miny == float(bbox[2])
        maxx == float(bbox[3])
        maxy == float(bbox[4])
    IN  IF (maxx - minx) < (maxy - miny)
        THEN << <<str_float(minx), str_float(miny), str_float(maxx),
                  str_float(Midpoint(miny, maxy))>>,
                <<str_float(minx), str_float(Midpoint(miny, maxy)),
                  str_float(maxx), str_float(maxy)>> >>
        ELSE << <<str_float(minx), str_float(miny),
                  str_float(Midpoint(minx, maxx)), str_float(maxy)>>,
                <<str_float(Midpoint(minx, maxx)), str_float(miny),
                  str_float(maxx), str_float(maxy)>> >>

\* ------------------------------------------------- values and versions
\* a str, a list and a tuple of Python
PyStr(t) == <<"str", t>>
PyList(items) == <<"list", items>>
PyTuple(items) == <<"tuple", items>>
PyBool(b) == <<"bool", b>>

\* the CRS of the requests and of the frames, and the CRS of the bboxes
\* the capabilities advertise
EPSG_25832 == PyStr("EPSG:25832")
EPSG_4326 == PyStr("EPSG:4326")

\* gdf.to_crs("EPSG:25832") of a box in EPSG:4326, as its bounds: the two
\* CRS of the model have their axes the other way round
to_crs(bounds) == <<bounds[2], bounds[1], bounds[4], bounds[3]>>

\* a bbox the caller passes is taken to be in EPSG:25832
given_crs(boxes) == IF boxes = None THEN None ELSE EPSG_25832

\* no exception
NoError == [type |-> "none", about |-> "none"]
Exception(type, about) == [type |-> type, about |-> about]

\* ord(c) of the characters of a version string
ord(c) ==
    CASE c = "." -> 46
      [] c = "0" -> 48
      [] c = "1" -> 49
      [] c = "2" -> 50
      [] c = "3" -> 51

\* a < b of two str: the first differing character decides, and a proper
\* prefix is smaller
RECURSIVE str_lt(_, _)
str_lt(a, b) ==
    IF b = <<>> THEN FALSE
    ELSE IF a = <<>> THEN TRUE
    ELSE IF Head(a) = Head(b) THEN str_lt(Tail(a), Tail(b))
    ELSE ord(Head(a)) < ord(Head(b))

\* the version strings, character by character
v1_0_0 == <<"1", ".", "0", ".", "0">>
v1_1_0 == <<"1", ".", "1", ".", "0">>
v2_0_0 == <<"2", ".", "0", ".", "0">>
v3_0_0 == <<"3", ".", "0", ".", "0">>

\* ------------------------------------------------------------- the server
\* the extent of a feature's geometry: of a point, the point
Extent(p) == IF Len(p) = 2 THEN <<p[1], p[2], p[1], p[2]>> ELSE p

\* a feature intersects a bbox (the bbox filter is inclusive)
Intersects(p, bbox) ==
    IF Len(p) = 2
    THEN /\ float(bbox[1]) <= p[1] /\ p[1] <= float(bbox[3])
         /\ float(bbox[2]) <= p[2] /\ p[2] <= float(bbox[4])
    ELSE /\ float(bbox[1]) <= p[3] /\ p[1] <= float(bbox[3])
         /\ float(bbox[2]) <= p[4] /\ p[2] <= float(bbox[4])

Matching(bbox) ==
    CHOOSE M \in { {f \in 1..NFeat : Intersects(feats[f], b)}
                    : b \in {bbox} } : TRUE

\* the features of S in the server's storage order (by id)
SortedSeq(S) ==
    CHOOSE q \in { SelectSeq([i \in 1..NFeat |-> i], LAMBDA i : i \in T)
                    : T \in {S} } : TRUE

\* numberMatched of a resultType=hits answer
NumberMatched(bbox) == Cardinality(Matching(bbox))

\* the rows of a GetFeature answer: at most cap of them, and at most count
Response(bbox, count) ==
    LET limit == IF count = None THEN cap ELSE Min(cap, count[2])
    IN  CHOOSE r \in { SubSeq(rows, 1, Min(limit, Len(rows)))
                        : rows \in {SortedSeq(Matching(bbox))} } : TRUE

\* the parameter that carries the feature type: typeName under 1.0.0 and
\* 1.1.0, typeNames otherwise
TypeKey == IF version \in {v1_0_0, v1_1_0} THEN "typeName" ELSE "typeNames"

\* the feature-type entry of self.__params that no request of the loop
\* writes: typename, set by __descripe_feature
Leftover ==
    IF params_typename = None THEN {} ELSE {<<"typename", params_typename>>}

\* the feature-type parameters of a request built on self.__params
SharedTypes == Leftover \cup {<<TypeKey, feature_name>>}

\* WFS.__get_hits builds its params afresh, WFSClient.__get_hits on a copy
\* of self.__params
HitsExchange(bbox, ok) ==
    [request |-> "GetFeature", resulttype |-> "hits", bbox |-> bbox,
     count |-> None, param |-> None,
     types |-> IF cls = "WFS" THEN {<<TypeKey, feature_name>>}
               ELSE SharedTypes,
     ok |-> ok]

\* the row cap always sent as count
CapParam_count(count) ==
    IF count = None THEN None ELSE PyStr("count")

\* the parameter that carries the row cap: maxfeatures under 1.0.0 and
\* 1.1.0, count otherwise
CapParam(count) ==
    IF count = None THEN None
    ELSE IF version \in {v1_0_0, v1_1_0} THEN PyStr("maxfeatures")
    ELSE PyStr("count")

ResultsExchange(bbox, count, ok) ==
    [request |-> "GetFeature", resulttype |-> "results", bbox |-> bbox,
     count |-> count, param |-> CapParam(count), types |-> SharedTypes,
     ok |-> ok]

\* no DescribeFeatureType request yet
NoRequest == [request |-> "none", types |-> {}]

\* __descripe_feature of both clients: WFS writes typename into
\* self.__params, which holds the typeName / typeNames of the fetch before;
\* WFSClient writes typename under 1.0.0 and 1.1.0 and typeNames otherwise
descripe_feature ==
    [request |-> "DescribeFeatureType",
     types |-> IF cls = "WFS"
               THEN {<<"typename", feature_name>>, <<TypeKey, feature_name>>}
               ELSE IF version \in {v1_0_0, v1_1_0}
               THEN {<<"typename", feature_name>>}
               ELSE Leftover \cup {<<"typeNames", feature_name>>},
     typename |-> IF cls = "WFS" \/ version \in {v1_0_0, v1_1_0}
                  THEN feature_name ELSE params_typename]

\* ------------------------------------------------------------- the clients
\* params = self.__params of WFS.__get_features_gdf: the dict is the client's
\* own, so the row cap a call wrote into it is still there when count is None
RowCap(count) == IF count # None THEN count ELSE params_count

\* __get_features_gdf that returns an empty frame instead of raising
WFS_get_features_gdf_swallow(bbox, count, ok) ==
    [raised |-> FALSE,
     gdf |-> IF ok THEN Response(bbox, RowCap(count)) ELSE <<>>,
     reqs |-> <<ResultsExchange(bbox, RowCap(count), ok)>>]

\* WFS.__get_features_gdf; ok: gpd.read_file could parse the payload
WFS_get_features_gdf(bbox, count, ok) ==
    [raised |-> ~ok,
     gdf |-> IF ok THEN Response(bbox, RowCap(count)) ELSE <<>>,
     reqs |-> <<ResultsExchange(bbox, RowCap(count), ok)>>]

\* WFS.__get_hits; hitsOk: the answer parses and has numberMatched
WFS_get_hits(bbox, hitsOk, fetchOk) ==
    IF hitsOk
    THEN [raised |-> FALSE, hits |-> NumberMatched(bbox), src |-> "hits",
          reqs |-> <<HitsExchange(bbox, TRUE)>>]
    ELSE LET tmp_gdf == WFS_get_features_gdf(bbox, None, fetchOk)
         IN  [raised |-> tmp_gdf.raised, hits |-> Len(tmp_gdf.gdf),
              src |-> "fetch",
              reqs |-> <<HitsExchange(bbox, FALSE)>> \o tmp_gdf.reqs]

\* WFSClient.__get_hits: nothing catches a bad answer
WFSClient_get_hits(bbox, hitsOk) ==
    [raised |-> ~hitsOk,
     hits |-> IF hitsOk THEN NumberMatched(bbox) ELSE 0,
     src |-> "hits",
     reqs |-> <<HitsExchange(bbox, hitsOk)>>]

\* WFSClient.__get_feature
WFSClient_get_feature(bbox, ok) ==
    [raised |-> ~ok,
     gdf |-> IF ok THEN Response(bbox, None) ELSE <<>>,
     reqs |-> <<ResultsExchange(bbox, None, ok)>>]

\* the comparison turned around
OverMax_inverted(hits) == hits * 100 < maxfeatures

\* a Rect counts as over the limit when it holds any feature
OverMax_any(hits) == hits * 100 > 0

\* hits > self.maxfeatures
OverMax(hits) == hits * 100 > maxfeatures

\* pd.concat(gdfs, ignore_index=True)
RECURSIVE concat(_)
concat(frames) ==
    IF frames = <<>> THEN <<>> ELSE Head(frames) \o concat(Tail(frames))

\* gdf.drop_duplicates(): the first of equal rows is kept
RECURSIVE drop_duplicates(_)
drop_duplicates(rows) ==
    IF rows = <<>> THEN <<>>
    ELSE <<Head(rows)>> \o
         drop_duplicates(SelectSeq(Tail(rows), LAMBDA r : r # Head(rows)))

\* one pass of the body of `for bbox in bboxes` in WFS.get_feature; h is what
\* __get_hits gives and g what the fetch of the Rect gives when the pass
\* comes to the fetch
WFS_iteration(bbox, hitsOk, fetchOk, leafOk) ==
    CHOOSE it \in
        { IF h.raised
          THEN [act |-> "raise", hits |-> 0, src |-> h.src, gdf |-> <<>>,
                reqs |-> h.reqs]
          ELSE IF OverMax(h.hits)
          THEN [act |-> "split", hits |-> h.hits, src |-> h.src, gdf |-> <<>>,
                reqs |-> h.reqs]
          ELSE CHOOSE fetched \in
              { IF g.raised
                THEN [act |-> "raise", hits |-> h.hits, src |-> h.src,
                      gdf |-> <<>>, reqs |-> h.reqs \o g.reqs]
                ELSE [act |-> "leaf", hits |-> h.hits, src |-> h.src,
                      gdf |-> g.gdf, reqs |-> h.reqs \o g.reqs]
                : g \in {WFS_get_features_gdf(bbox, None, leafOk)} } : TRUE
          : h \in {WFS_get_hits(bbox, hitsOk, fetchOk)} } : TRUE

\* one pass of the body of `for bbox in bboxes` in WFSClient.get_features
WFSClient_iteration(bbox, hitsOk, fetchOk, leafOk) ==
    IF hits_advertised
    THEN CHOOSE it \in
        { IF h.raised
          THEN [act |-> "raise", hits |-> 0, src |-> "hits",
                gdf |-> <<>>, reqs |-> h.reqs]
          ELSE IF OverMax(h.hits)
          THEN [act |-> "split", hits |-> h.hits, src |-> "hits",
                gdf |-> <<>>, reqs |-> h.reqs]
          ELSE CHOOSE fetched \in
              { IF g.raised
                THEN [act |-> "raise", hits |-> h.hits, src |-> "hits",
                      gdf |-> <<>>, reqs |-> h.reqs \o g.reqs]
                ELSE [act |-> "leaf", hits |-> h.hits, src |-> "hits",
                      gdf |-> g.gdf, reqs |-> h.reqs \o g.reqs]
                : g \in {WFSClient_get_feature(bbox, leafOk)} } : TRUE
          : h \in {WFSClient_get_hits(bbox, hitsOk)} } : TRUE
    ELSE CHOOSE it \in
        { IF g.raised
          THEN [act |-> "raise", hits |-> 0, src |-> "fetch",
                gdf |-> <<>>, reqs |-> g.reqs]
          ELSE IF OverMax(Len(g.gdf))
          THEN [act |-> "split", hits |-> Len(g.gdf), src |-> "fetch",
                gdf |-> <<>>, reqs |-> g.reqs]
          ELSE [act |-> "leaf", hits |-> Len(g.gdf), src |-> "fetch",
                gdf |-> g.gdf, reqs |-> g.reqs]
          : g \in {WFSClient_get_feature(bbox, fetchOk)} } : TRUE

iteration(bbox, hitsOk, fetchOk, leafOk) ==
    IF cls = "WFS" THEN WFS_iteration(bbox, hitsOk, fetchOk, leafOk)
    ELSE WFSClient_iteration(bbox, hitsOk, fetchOk, leafOk)

\* no two calls at once: the entries of self.__params a fetch writes before
\* it reads them, and no thread
NoRace == [params |-> [bbox |-> None, type |-> None], th |-> <<>>]

\* what the model keeps of a pass of the loop
NoPass == [at |-> 0, act |-> "none", hits |-> 0, src |-> "none", reqs |-> <<>>]

Pass(i, it) ==
    [at |-> i, act |-> it.act, hits |-> it.hits, src |-> it.src,
     reqs |-> it.reqs]

AnsweredExactly(exchanges) ==
    \A k \in 1..Len(exchanges) :
        exchanges[k].resulttype = "hits" => exchanges[k].ok

\* ------------------------------------------------------------------ inputs
\* the bboxes a caller passes at construction
StartRects == { <<0, 0, MaxCoord, 2>>, <<0, 0, 2, MaxCoord>> }

\* where the server's features lie
FeatPos == { <<0, 0>>, <<2, 0>>, <<2, 2>>, <<MaxCoord, 2>> }

Rank(p) == p[1] * (MaxCoord + 1) + p[2]

\* the storage order of the server follows the positions
Layouts ==
    {f \in [1..NFeat -> FeatPos] :
        \A i \in 1..(NFeat - 1) : Rank(f[i]) <= Rank(f[i + 1])}

\* the advertised cap: below the number of features, or equal to it
Caps == {2, NFeat}

\* the maxfeatures a caller may pass: below and above the cap
MaxFeaturesKw == {None, PyInt(1), PyInt(NFeat)}

\* the count option of a call
CountKw == {Unset, None, PyInt(1)}

\* ------------------------------------------------------------ construction
\* WFS.__init__ and WFSClient.__init__: maxfeatures and bbox
InitMaxFeatures(c, kw, capv) ==
    IF kw # None THEN kw[2] * 100
    ELSE IF c = "WFS" THEN capv * MaxFeaturesPct ELSE capv * 100

\* WFS.__get_maxfeatures: the DefaultValue of the CountDefault constraint;
\* 10000 when the constraint is absent or int() of its text raises
WFS_get_maxfeatures(capab) ==
    IF capab.CountDefault[1] = "int" THEN capab.CountDefault[2]
    ELSE DefaultMaxFeatures

\* WFSClient.__get_max_features: 10000 when the constraint is absent; int()
\* of a text that is no number raises
WFSClient_get_max_features(capab) ==
    IF capab.CountDefault = None
    THEN [error |-> NoError, value |-> DefaultMaxFeatures]
    ELSE IF capab.CountDefault[1] = "int"
    THEN [error |-> NoError, value |-> capab.CountDefault[2]]
    ELSE [error |-> Exception("ValueError", "invalid literal for int()"),
          value |-> 0]

\* operations['MaxFeatures'] as __init__ reads it from the capabilities
get_maxfeatures(c, capab) ==
    IF c = "WFS" THEN WFS_get_maxfeatures(capab)
    ELSE WFSClient_get_max_features(capab).value

\* the credentials test with the test left out
CredentialsMissing_ignored(kw) == FALSE

\* hasattr(username) and not hasattr(password), or the other way round
CredentialsMissing(kw) == kw.username # kw.password

\* the first advertised version, the list left unsorted
sorted_reverse_first_unsorted(l) == l[1]

\* sorted(l, reverse=True)[0]
sorted_reverse_first(l) ==
    CHOOSE v \in {l[i] : i \in 1..Len(l)} :
        \A w \in {l[i] : i \in 1..Len(l)} : ~str_lt(v, w)

\* WFS.__init__: self.version
WFS_version(kw, capab) ==
    IF kw.version = Unset
    THEN [error |-> NoError,
          version |-> IF capab.AcceptVersions \in {None, <<>>}
                      THEN v1_0_0
                      ELSE sorted_reverse_first(capab.AcceptVersions)]
    ELSE IF capab.AcceptVersions = None
    THEN [error |-> Exception("KeyError", "AcceptVersions"),
          version |-> kw.version]
    ELSE IF kw.version \notin {capab.AcceptVersions[i] :
                                  i \in 1..Len(capab.AcceptVersions)}
    THEN [error |-> Exception("ValueError", "version not supported"),
          version |-> kw.version]
    ELSE [error |-> NoError, version |-> kw.version]

\* the bbox test without isinstance(self.bbox, list)
init_bbox_any_sequence(kw) ==
    IF kw.bbox = Unset
    THEN [error |-> NoError, bboxes |-> None, default_bbox |-> None,
          missing_default_bbox |-> TRUE]
    ELSE IF Len(kw.bbox[2]) # 4
    THEN [error |-> Exception("ValueError", "bbox must be a list"),
          bboxes |-> None, default_bbox |-> None,
          missing_default_bbox |-> TRUE]
    ELSE [error |-> NoError,
          bboxes |-> PyList(<< [i \in 1..4 |-> str_int(kw.bbox[2][i])] >>),
          default_bbox |-> [i \in 1..4 |-> str_int(kw.bbox[2][i])],
          missing_default_bbox |-> FALSE]

\* __init__ of both clients: self.bbox becomes self.bboxes
init_bbox(kw) ==
    IF kw.bbox = Unset
    THEN [error |-> NoError, bboxes |-> None, default_bbox |-> None,
          missing_default_bbox |-> TRUE]
    ELSE IF kw.bbox[1] # "list" \/ Len(kw.bbox[2]) # 4
    THEN [error |-> Exception("ValueError", "bbox must be a list"),
          bboxes |-> None, default_bbox |-> None,
          missing_default_bbox |-> TRUE]
    ELSE [error |-> NoError,
          bboxes |-> PyList(<< [i \in 1..4 |-> str_int(kw.bbox[2][i])] >>),
          default_bbox |-> [i \in 1..4 |-> str_int(kw.bbox[2][i])],
          missing_default_bbox |-> FALSE]

\* WFS.__get_operation_names: an element whose parsing raises is passed over
WFS_get_operation_names(capab) ==
    LET named == SelectSeq(capab.Operations, LAMBDA e : e.name # None)
    IN  [i \in 1..Len(named) |-> named[i].name]

\* WFS.__get_feature_types: Name and Title are read with .text, an element
\* without one of them raises and is passed over
WFS_get_feature_types(capab) ==
    LET parsed == SelectSeq(capab.FeatureTypes,
                            LAMBDA e : e.name # None /\ e.title # None)
    IN  [i \in 1..Len(parsed) |-> parsed[i].name]

\* WFS.__get_feature_types: self.__feature_translations[title] = name for
\* every element parsed; of two elements with one Title the later stays
WFS_feature_translations(capab, title) ==
    LET titled == SelectSeq(capab.FeatureTypes,
                            LAMBDA e : e.name # None /\ e.title = title)
    IN  IF titled = <<>> THEN None ELSE titled[Len(titled)].name

\* WFSClient.__get_feature_list: feature['name'].split(':') of every element
WFSClient_get_feature_list(capab) ==
    IF \E i \in 1..Len(capab.FeatureTypes) : capab.FeatureTypes[i].name = None
    THEN [error |-> Exception("AttributeError", "split"), names |-> <<>>]
    ELSE [error |-> NoError,
          names |-> [i \in 1..Len(capab.FeatureTypes) |->
                        capab.FeatureTypes[i].name]]

\* WFSClient.__get_operations: operation.attrib['name'] of every Operation
\* element from 2.0.0 on, the tags of the Request element before
WFSClient_get_operations(capab, v) ==
    LET named == SelectSeq(capab.Operations, LAMBDA e : e.name # None)
    IN  IF ~str_lt(v, v2_0_0) /\ Len(named) # Len(capab.Operations)
        THEN [error |-> Exception("KeyError", "name"), names |-> <<>>]
        ELSE [error |-> NoError,
              names |-> [i \in 1..Len(named) |-> named[i].name]]

\* the requests of __init__
GetCapabilities == <<"GetCapabilities">>

\* __init__ left by an exception
InitRaised(reqs, e) ==
    [error |-> e, requests |-> reqs, version |-> <<>>, operations |-> <<>>,
     feature_types |-> <<>>, bboxes |-> None, default_bbox |-> None,
     missing_default_bbox |-> TRUE]

\* WFS.__init__
WFS_init(kw, capab) ==
    IF CredentialsMissing(kw)
    THEN InitRaised(<<>>, Exception("ValueError", "username and password"))
    ELSE IF WFS_version(kw, capab).error # NoError
    THEN InitRaised(GetCapabilities, WFS_version(kw, capab).error)
    ELSE IF init_bbox(kw).error # NoError
    THEN InitRaised(GetCapabilities, init_bbox(kw).error)
    ELSE [error |-> NoError, requests |-> GetCapabilities,
          version |-> WFS_version(kw, capab).version,
          operations |-> WFS_get_operation_names(capab),
          feature_types |-> WFS_get_feature_types(capab),
          bboxes |-> init_bbox(kw).bboxes,
          default_bbox |-> init_bbox(kw).default_bbox,
          missing_default_bbox |-> init_bbox(kw).missing_default_bbox]

\* WFSClient.__init__
WFSClient_init(kw, capab) ==
    IF CredentialsMissing(kw)
    THEN InitRaised(<<>>, Exception("ValueError", "username and password"))
    ELSE IF WFSClient_get_feature_list(capab).error # NoError
    THEN InitRaised(GetCapabilities, WFSClient_get_feature_list(capab).error)
    ELSE IF WFSClient_get_operations(capab, capab.version).error # NoError
    THEN InitRaised(GetCapabilities,
                    WFSClient_get_operations(capab, capab.version).error)
    ELSE IF /\ maxfeatures_kw = None
            /\ WFSClient_get_max_features(capab).error # NoError
    THEN InitRaised(GetCapabilities, WFSClient_get_max_features(capab).error)
    ELSE IF init_bbox(kw).error # NoError
    THEN InitRaised(GetCapabilities, init_bbox(kw).error)
    ELSE [error |-> NoError, requests |-> GetCapabilities,
          version |-> capab.version,
          operations |->
              WFSClient_get_operations(capab, capab.version).names,
          feature_types |-> WFSClient_get_feature_list(capab).names,
          bboxes |-> init_bbox(kw).bboxes,
          default_bbox |-> init_bbox(kw).default_bbox,
          missing_default_bbox |-> init_bbox(kw).missing_default_bbox]

init(c, kw, capab) ==
    IF c = "WFS" THEN WFS_init(kw, capab) ELSE WFSClient_init(kw, capab)

\* a FeatureType element and an Operation element of the capabilities
Entry(name, title, bbox) == [name |-> name, title |-> title, bbox |-> bbox]
Operation(name) == [name |-> name]

\* the capabilities of a 2.0.0 server that advertises three versions, in the
\* order of the document, and its cap as CountDefault
Served(types) ==
    [version |-> v2_0_0,
     AcceptVersions |-> <<v1_1_0, v2_0_0, v1_0_0>>,
     CountDefault |-> PyInt(cap),
     FeatureTypes |-> types,
     Operations |-> <<Operation(PyStr("GetCapabilities")),
                      Operation(PyStr("GetFeature"))>>]

\* the frame of a call that returned nothing
NoResult == [columns |-> <<>>, rows |-> <<>>]

Init ==
    /\ cls \in {"WFS", "WFSClient"}
    /\ hits_advertised \in BOOLEAN
    /\ cls = "WFS" => hits_advertised
    /\ cap \in Caps
    /\ feats \in Layouts
    /\ maxfeatures_kw \in MaxFeaturesKw
    /\ maxfeatures = InitMaxFeatures(cls, maxfeatures_kw, cap)
    /\ capabilities = Served(<<Entry(PyStr("F"), PyStr("F"), None)>>)
    /\ \E r \in StartRects :
          kwargs = [username |-> FALSE, password |-> FALSE, version |-> Unset,
                    bbox |-> PyList(r)]
    /\ init_requests = init(cls, kwargs, capabilities).requests
    /\ version = init(cls, kwargs, capabilities).version
    /\ operations = init(cls, kwargs, capabilities).operations
    /\ feature_types = init(cls, kwargs, capabilities).feature_types
    /\ self_bboxes = init(cls, kwargs, capabilities).bboxes
    /\ default_bbox = init(cls, kwargs, capabilities).default_bbox
    /\ bbox_crs = given_crs(self_bboxes)
    /\ missing_default_bbox =
           init(cls, kwargs, capabilities).missing_default_bbox
    /\ error = NoError
    /\ self_clip_gdf = Unset
    /\ kw_clip_gdf = Unset
    /\ feature_name = Unset
    /\ called = {}
    /\ result = NoResult
    /\ self_count = Unset
    /\ params_count = None
    /\ params_typename = None
    /\ describe = NoRequest
    /\ kw_count = Unset
    /\ pc = "idle"
    /\ bboxes = <<>>
    /\ idx = 1
    /\ gdfs = <<>>
    /\ leaves = <<>>
    /\ gdf = <<>>
    /\ hits_exact = TRUE
    /\ pass = NoPass
    /\ race = NoRace

\* -------------------------------------------------- what follows the loop
\* the attribute names of the server's features: a short one, one with a
\* dot, one of NameLimit characters and one of NameLimit + 1
Name(n, last) == [i \in 1..n |-> IF i = n THEN last ELSE "a"]

Schema ==
    <<Name(2, "d"), <<"a", ".", "b">>, Name(NameLimit, "y"),
      Name(NameLimit + 1, "z"), <<"geometry">> >>

\* col.replace('.', '_')
replace_dot(col) == [i \in 1..Len(col) |-> IF col[i] = "." THEN "_" ELSE col[i]]

\* col[:30]
truncate(col) == SubSeq(col, 1, Min(NameLimit, Len(col)))

Max(a, b) == IF a >= b THEN a ELSE b

\* the part of a geometry inside the box
Intersection(g, b) ==
    <<Max(g[1], b[1]), Max(g[2], b[2]), Min(g[3], b[3]), Min(g[4], b[4])>>

\* the frame of the rows as the server delivered them
Frame(rows) == [i \in 1..Len(rows) |->
                   [id |-> rows[i], geometry |-> Extent(feats[rows[i]])]]

\* __clip_gdf: gpd.clip to the box of self.__default_bbox
do_clip_gdf(frame) ==
    LET b == <<float(default_bbox[1]), float(default_bbox[2]),
               float(default_bbox[3]), float(default_bbox[4])>>
        cut == [i \in 1..Len(frame) |->
                   [id |-> frame[i].id,
                    geometry |-> Intersection(frame[i].geometry, b)]]
    IN  SelectSeq(cut, LAMBDA r : /\ r.geometry[1] <= r.geometry[3]
                                  /\ r.geometry[2] <= r.geometry[4])

\* clip_gdf of the call: the attribute if there is one, else True
clip_gdf == IF self_clip_gdf = Unset THEN TRUE ELSE self_clip_gdf[2]

\* the test before __clip_gdf
Clips(rows) ==
    IF cls = "WFS"
    THEN clip_gdf /\ missing_default_bbox = FALSE /\ Len(rows) > 0
    ELSE clip_gdf /\ Len(rows) > 0

\* gdf.rename(columns=lambda x: x.replace('.', '_')) and gdf['xTid'] = ...
renamed ==
    [i \in 1..Len(Schema) |-> replace_dot(Schema[i])] \o << <<"xTid">> >>

\* gdf.columns = [col[:30] for col in gdf.columns]
truncated == [i \in 1..Len(renamed) |-> truncate(renamed[i])]

\* get_feature / get_features after drop_duplicates: rename, xTid, clip, and
\* in WFS the truncation of the column names
post(rows) ==
    [columns |-> IF cls = "WFS" THEN truncated ELSE renamed,
     rows |-> IF Clips(rows) THEN do_clip_gdf(Frame(rows)) ELSE Frame(rows)]

\* ------------------------------------------------------------------ actions
\* the FeatureType element __get_bbox finds: the first whose Title is typename
Found(typename) ==
    SelectSeq(capabilities.FeatureTypes, LAMBDA e : e.title = typename)

\* WFS.__get_bbox; boxOk: shapely's box() takes the coordinates, which are
\* str here, without raising
WFS_get_bbox(typename, boxOk) ==
    IF Found(typename) = <<>> \/ Head(Found(typename)).bbox = None \/ ~boxOk
    THEN [error |-> Exception("ValueError", "Could not find bounding box"),
          bboxes |-> self_bboxes, default_bbox |-> default_bbox,
          crs |-> bbox_crs]
    ELSE [error |-> NoError,
          bboxes |-> PyList(<< [i \in 1..4 |->
                      str_float(to_crs(Head(Found(typename)).bbox)[i])] >>),
          default_bbox |-> [i \in 1..4 |->
                      str_float(to_crs(Head(Found(typename)).bbox)[i])],
          crs |-> EPSG_25832]

\* the FeatureType element self.feature_list[feature_name] holds: the last
\* of that name
Listed(name) ==
    SelectSeq(capabilities.FeatureTypes, LAMBDA e : e.name = name)

\* WFSClient.get_features: [str(b) for b in self.feature_list[...]['bbox']]
WFSClient_seed(name) ==
    IF Listed(name) = <<>>
    THEN [error |-> Exception("KeyError", "feature_name"),
          bboxes |-> self_bboxes, default_bbox |-> default_bbox,
          crs |-> bbox_crs]
    ELSE IF Listed(name)[Len(Listed(name))].bbox = None
    THEN [error |-> Exception("TypeError", "NoneType is not iterable"),
          bboxes |-> self_bboxes, default_bbox |-> default_bbox,
          crs |-> bbox_crs]
    ELSE [error |-> NoError,
          bboxes |-> PyList(<< [i \in 1..4 |->
               str_float(Listed(name)[Len(Listed(name))].bbox[i])] >>),
          default_bbox |-> [i \in 1..4 |->
               str_float(Listed(name)[Len(Listed(name))].bbox[i])],
          crs |-> EPSG_4326]

\* if self.bboxes is None: self.bboxes = ...
seed_bboxes(name, boxOk) ==
    IF self_bboxes # None
    THEN [error |-> NoError, bboxes |-> self_bboxes,
          default_bbox |-> default_bbox, crs |-> bbox_crs]
    ELSE IF cls = "WFS" THEN WFS_get_bbox(name, boxOk)
    ELSE WFSClient_seed(name)

\* get_feature / get_features up to the loop: every keyword argument becomes
\* an attribute of the client, whatever its name; mf is a maxfeatures passed
\* to the call
CallSet(name, kw, clip, mf) ==
    /\ pc \in {"idle", "done", "raised"}
    /\ cls = "WFSClient" => kw = Unset
    /\ feature_name' = name
    /\ called' = called \cup {name}
    /\ kw_count' = kw
    /\ self_count' = IF kw = Unset THEN self_count ELSE kw
    /\ kw_clip_gdf' = clip
    /\ self_clip_gdf' = IF clip = Unset THEN self_clip_gdf ELSE clip
    /\ \E boxOk \in IF cls = "WFS" /\ self_bboxes = None
                      THEN BOOLEAN ELSE {TRUE} :
          \E sd \in {seed_bboxes(name, boxOk)} :
              /\ error' = sd.error
              /\ self_bboxes' = sd.bboxes
              /\ default_bbox' = sd.default_bbox
              /\ bbox_crs' = sd.crs
              /\ bboxes' = IF sd.error = NoError THEN sd.bboxes[2] ELSE <<>>
              /\ pc' = IF sd.error # NoError THEN "raised"
                       ELSE IF cls = "WFS" /\ self_count' \notin {Unset, None}
                       THEN "sample" ELSE "loop"
    /\ idx' = 1
    /\ gdfs' = <<>>
    /\ leaves' = <<>>
    /\ gdf' = <<>>
    /\ hits_exact' = TRUE
    /\ pass' = NoPass
    /\ result' = NoResult
    /\ describe' = NoRequest
    /\ maxfeatures' = IF mf = Unset THEN maxfeatures ELSE mf[2] * 100
    /\ UNCHANGED <<fixed, race, missing_default_bbox, params_count,
                   params_typename>>

\* a call with the options count and clip_gdf
CallWith(name, kw, clip) == CallSet(name, kw, clip, Unset)

\* a call for the one feature type of the server, clip_gdf not passed
Call(kw) == CallWith(PyStr("F"), kw, Unset)

\* count is not None: one GetFeature for bboxes[0] with the row cap
Sample ==
    /\ pc = "sample"
    /\ \E ok \in BOOLEAN :
          \E g \in {WFS_get_features_gdf(bboxes[1], self_count, ok)} :
              /\ pass' = [at |-> 1, act |-> "sample", hits |-> 0,
                           src |-> "none", reqs |-> g.reqs]
              /\ gdf' = g.gdf
              /\ pc' = IF g.raised THEN "raised" ELSE "done"
              /\ error' = IF g.raised
                          THEN Exception("ValueError", "Could not read")
                          ELSE NoError
              /\ result' = IF g.raised THEN NoResult ELSE post(g.gdf)
              /\ describe' = IF g.raised THEN describe
                             ELSE [request |-> descripe_feature.request,
                                   types |-> descripe_feature.types]
              /\ params_typename' = IF g.raised THEN params_typename
                                    ELSE descripe_feature.typename
    /\ params_count' = self_count
    /\ UNCHANGED <<session, race, seed, options, self_count, kw_count,
                   bboxes, idx, gdfs, leaves, hits_exact>>

\* the outcomes of the exchanges of a pass; an exchange the pass does not
\* make has none to draw.  WFSClient asks for the count only when the server
\* advertises resultType=hits
HitsOutcomes == IF cls = "WFSClient" /\ ~hits_advertised THEN {TRUE} ELSE BOOLEAN

\* the fetch that stands in for the count: made by WFS when the hits answer
\* is bad, and by WFSClient when the server has no resultType=hits
FetchOutcomes(hitsOk) ==
    IF cls = "WFS" THEN (IF hitsOk THEN {TRUE} ELSE BOOLEAN)
    ELSE IF hits_advertised THEN {TRUE} ELSE BOOLEAN

\* the two halves are put at the head of the list, before the Rects waiting
SplitPass_stack(hitsOk, fetchOk) ==
    /\ pc = "loop"
    /\ idx <= Len(bboxes)
    /\ Len(bboxes) < 1 + 2 * MaxSplits
    /\ \E it \in {iteration(bboxes[idx], hitsOk, fetchOk, TRUE)} :
          /\ it.act = "split"
          /\ bboxes' = split_bbox(bboxes[idx]) \o bboxes
          /\ pass' = Pass(idx, it)
          /\ hits_exact' = (hits_exact /\ AnsweredExactly(it.reqs))
    /\ idx' = idx + 1
    /\ UNCHANGED <<session, race, seed, options, error, result, self_count,
                   params_count, params_typename, describe, kw_count, pc,
                   gdfs, leaves, gdf>>

\* hits > maxfeatures: the two halves are appended to bboxes; hitsOk and
\* fetchOk are the outcomes of the exchanges of the pass
SplitPass(hitsOk, fetchOk) ==
    /\ pc = "loop"
    /\ idx <= Len(bboxes)
    /\ Len(bboxes) < 1 + 2 * MaxSplits
    /\ \E it \in {iteration(bboxes[idx], hitsOk, fetchOk, TRUE)} :
          /\ it.act = "split"
          /\ bboxes' = bboxes \o split_bbox(bboxes[idx])
          /\ pass' = Pass(idx, it)
          /\ hits_exact' = (hits_exact /\ AnsweredExactly(it.reqs))
    /\ idx' = idx + 1
    /\ UNCHANGED <<session, race, seed, options, error, result, self_count,
                   params_count, params_typename, describe, kw_count, pc,
                   gdfs, leaves, gdf>>

Split ==
    \E hitsOk \in HitsOutcomes : \E fetchOk \in FetchOutcomes(hitsOk) :
        SplitPass(hitsOk, fetchOk)

\* hits <= maxfeatures: the record set of the Rect is appended to gdfs
LeafPass(hitsOk, fetchOk) ==
    /\ pc = "loop"
    /\ idx <= Len(bboxes)
    /\ \E it \in {iteration(bboxes[idx], hitsOk, fetchOk, TRUE)} :
          /\ it.act = "leaf"
          /\ gdfs' = Append(gdfs, it.gdf)
          /\ leaves' = Append(leaves, bboxes[idx])
          /\ pass' = Pass(idx, it)
          /\ hits_exact' = (hits_exact /\ AnsweredExactly(it.reqs))
    /\ idx' = idx + 1
    /\ UNCHANGED <<session, race, seed, options, error, result, self_count,
                   params_count, params_typename, describe, kw_count, pc,
                   bboxes, gdf>>

Leaf ==
    \E hitsOk \in HitsOutcomes : \E fetchOk \in FetchOutcomes(hitsOk) :
        LeafPass(hitsOk, fetchOk)

\* an exchange of the pass raises: the exception leaves get_feature
Raise ==
    /\ pc = "loop"
    /\ idx <= Len(bboxes)
    /\ \E hitsOk \in HitsOutcomes : \E fetchOk \in FetchOutcomes(hitsOk) :
          \E leafOk \in BOOLEAN :
              \E it \in {iteration(bboxes[idx], hitsOk, fetchOk, leafOk)} :
                  /\ it.act = "raise"
                  /\ pass' = Pass(idx, it)
                  /\ hits_exact' = (hits_exact /\ AnsweredExactly(it.reqs))
    /\ pc' = "raised"
    /\ error' = Exception("ValueError", "Could not read")
    /\ UNCHANGED <<session, race, seed, options, result, self_count,
                   params_count, params_typename, describe, kw_count,
                   bboxes, idx, gdfs, leaves, gdf>>

\* the loop is exhausted: concat, drop_duplicates, and what follows them
Finish ==
    /\ pc = "loop"
    /\ idx > Len(bboxes)
    /\ IF gdfs = <<>>
       THEN /\ pc' = "raised"
            /\ gdf' = gdf
            /\ error' = Exception("ValueError", "No objects to concatenate")
            /\ result' = result
            /\ UNCHANGED <<params_typename, describe>>
       ELSE /\ pc' = "done"
            /\ error' = error
            /\ \E g \in {drop_duplicates(concat(gdfs))} :
                  /\ gdf' = g
                  /\ result' = post(g)
            /\ describe' = [request |-> descripe_feature.request,
                            types |-> descripe_feature.types]
            /\ params_typename' = descripe_feature.typename
    /\ UNCHANGED <<session, race, seed, options, self_count, params_count,
                   kw_count, bboxes, idx, gdfs, leaves, hits_exact, pass>>

Next ==
    \/ \E kw \in CountKw : Call(kw)
    \/ Sample
    \/ Split
    \/ Leaf
    \/ Raise
    \/ Finish

Spec == Init /\ [][Next]_vars

\* the steps of a client whose exchanges with the server do not raise; the
\* passes whose exchanges are all answered well stand first among them
NextAnswered ==
    \/ Finish
    \/ LeafPass(TRUE, TRUE)
    \/ SplitPass(TRUE, TRUE)
    \/ Leaf
    \/ Split
    \/ Sample
    \/ \E kw \in CountKw : Call(kw)

\* the clients whose threshold comes from the capabilities
InitFair == Init /\ maxfeatures_kw = None

\* get_feature is blocking and single-threaded: a call whose exchange is
\* answered takes its next step
FairSpec == InitFair /\ [][Next]_vars /\ WF_vars(NextAnswered)

\* ------------------------------------------------- construction on its own
\* the keyword arguments a caller passes to the constructor
CtorKwargs ==
    [username : BOOLEAN, password : BOOLEAN,
     version : {Unset, v1_1_0, v3_0_0},
     bbox : {Unset, PyList(<<0, 0, MaxCoord, 2>>),
             PyTuple(<<0, 0, MaxCoord, 2>>), PyList(<<0, 0, MaxCoord>>),
             PyList(<<0, 0, MaxCoord, 2, 2>>)}]

\* the FeatureType elements of a server: two types, one of which may lack
\* its bbox, its Title or (an element that cannot be parsed) its Name
TypeLists ==
    { <<Entry(PyStr("F"), PyStr("F"), <<0, 0, 2, MaxCoord>>),
        Entry(PyStr("G"), PyStr("G"), <<0, 0, MaxCoord, 2>>)>>,
      <<Entry(PyStr("F"), PyStr("F"), None),
        Entry(PyStr("G"), PyStr("G"), <<0, 0, MaxCoord, 2>>)>>,
      <<Entry(PyStr("F"), None, <<0, 0, 2, MaxCoord>>),
        Entry(PyStr("G"), PyStr("G"), <<0, 0, MaxCoord, 2>>)>>,
      <<Entry(PyStr("F"), PyStr("F"), <<0, 0, 2, MaxCoord>>),
        Entry(None, PyStr("H"), None),
        Entry(PyStr("G"), PyStr("G"), <<0, 0, MaxCoord, 2>>)>> }

\* the Operation elements of a server, one of which may lack its name
OperationLists ==
    { <<Operation(PyStr("GetCapabilities")), Operation(PyStr("GetFeature"))>>,
      <<Operation(PyStr("GetCapabilities")), Operation(None),
        Operation(PyStr("GetFeature"))>> }

\* the CountDefault constraint of a document: absent, a text that is no
\* number, or the cap of the server
CountDefaults == {None, PyStr("unbounded"), PyInt(2)}

\* the capabilities documents: the AcceptVersions parameter is there or not
Documents ==
    [version : {v1_1_0, v2_0_0},
     AcceptVersions : {None, <<v1_1_0, v2_0_0, v1_0_0>>},
     CountDefault : CountDefaults,
     FeatureTypes : TypeLists,
     Operations : OperationLists]

InitCtor ==
    /\ cls \in {"WFS", "WFSClient"}
    /\ cap = 2
    /\ feats \in {f \in Layouts :
                     \A i \in 1..NFeat : f[i] = IF i = 1 THEN <<0, 0>>
                                                ELSE <<2, 2>>}
    /\ maxfeatures_kw \in {None, PyInt(NFeat)}
    /\ maxfeatures = 0
    /\ kwargs \in CtorKwargs
    /\ capabilities \in Documents
    /\ cls = "WFS" => capabilities.version = v2_0_0
    /\ hits_advertised = (cls = "WFS" \/ capabilities.version = v2_0_0)
    /\ init_requests = <<>>
    /\ version = <<>>
    /\ operations = <<>>
    /\ feature_types = <<>>
    /\ self_bboxes = None
    /\ default_bbox = None
    /\ bbox_crs = given_crs(self_bboxes)
    /\ missing_default_bbox = TRUE
    /\ error = NoError
    /\ self_clip_gdf = Unset
    /\ kw_clip_gdf = Unset
    /\ feature_name = Unset
    /\ called = {}
    /\ result = NoResult
    /\ self_count = Unset
    /\ params_count = None
    /\ params_typename = None
    /\ describe = NoRequest
    /\ kw_count = Unset
    /\ pc = "new"
    /\ bboxes = <<>>
    /\ idx = 1
    /\ gdfs = <<>>
    /\ leaves = <<>>
    /\ gdf = <<>>
    /\ hits_exact = TRUE
    /\ pass = NoPass
    /\ race = NoRace

\* WFS(url, **kwargs) / WFSClient(url, **kwargs)
Construct ==
    /\ pc = "new"
    /\ \E o \in {init(cls, kwargs, capabilities)} :
          /\ error' = o.error
          /\ init_requests' = o.requests
          /\ version' = o.version
          /\ operations' = o.operations
          /\ feature_types' = o.feature_types
          /\ self_bboxes' = o.bboxes
          /\ default_bbox' = o.default_bbox
          /\ bbox_crs' = given_crs(o.bboxes)
          /\ missing_default_bbox' = o.missing_default_bbox
          /\ pc' = IF o.error = NoError THEN "idle" ELSE "init_raised"
          /\ maxfeatures' = IF o.error = NoError
                            THEN InitMaxFeatures(cls, maxfeatures_kw,
                                     get_maxfeatures(cls, capabilities))
                            ELSE maxfeatures
    /\ UNCHANGED <<cls, kwargs, capabilities, hits_advertised, cap, feats,
                   maxfeatures_kw, race, options, result, self_count,
                   params_count,
                   params_typename, describe, kw_count, bboxes, idx, gdfs,
                   leaves, gdf, hits_exact, pass>>

\* the feature types a caller asks for
TypeNames == {PyStr("F"), PyStr("G")}

NextCtor ==
    \/ Construct
    \/ \E name \in TypeNames : CallWith(name, Unset, Unset)
    \/ Split
    \/ Leaf
    \/ Raise
    \/ Finish

CtorSpec == InitCtor /\ [][NextCtor]_vars

\* ------------------------------------------------ the options of a call
\* the server's features: two points and a geometry that reaches from
\* inside the bbox a caller passes to beyond it
Extents ==
    {[i \in 1..NFeat |-> IF i = 1 THEN <<0, 0>>
                          ELSE IF i = 2 THEN <<1, 1, 3, MaxCoord>>
                          ELSE <<MaxCoord, 2>>]}

\* the clip_gdf option of a call
ClipKw == {Unset, PyBool(TRUE), PyBool(FALSE)}

InitOpt ==
    /\ cls \in {"WFS", "WFSClient"}
    /\ cap = 2
    /\ feats \in Extents
    /\ maxfeatures_kw = None
    /\ maxfeatures = InitMaxFeatures(cls, maxfeatures_kw, cap)
    /\ capabilities \in
          {[version |-> v,
            AcceptVersions |-> <<v1_1_0, v2_0_0, v1_0_0>>,
            CountDefault |-> PyInt(cap),
            FeatureTypes |->
                <<Entry(PyStr("F"), PyStr("F"), <<0, 0, 2, MaxCoord>>),
                  Entry(PyStr("G"), PyStr("G"), <<0, 0, MaxCoord, 2>>),
                  Entry(PyStr("H"), PyStr("T"), <<0, 0, 2, MaxCoord>>)>>,
            Operations |-> <<Operation(PyStr("GetCapabilities")),
                             Operation(PyStr("GetFeature"))>>]
           : v \in {v1_1_0, v2_0_0}}
    /\ kwargs \in [username : {FALSE}, password : {FALSE},
                    version : {Unset, v1_1_0},
                    bbox : {Unset, PyList(<<0, 0, MaxCoord, 2>>)}]
    /\ cls = "WFS" => capabilities.version = v2_0_0
    /\ cls = "WFSClient" => kwargs.version = Unset
    /\ hits_advertised = (cls = "WFS" \/ capabilities.version = v2_0_0)
    /\ init_requests = init(cls, kwargs, capabilities).requests
    /\ version = init(cls, kwargs, capabilities).version
    /\ operations = init(cls, kwargs, capabilities).operations
    /\ feature_types = init(cls, kwargs, capabilities).feature_types
    /\ self_bboxes = init(cls, kwargs, capabilities).bboxes
    /\ default_bbox = init(cls, kwargs, capabilities).default_bbox
    /\ bbox_crs = given_crs(self_bboxes)
    /\ missing_default_bbox =
           init(cls, kwargs, capabilities).missing_default_bbox
    /\ error = NoError
    /\ self_clip_gdf = Unset
    /\ kw_clip_gdf = Unset
    /\ feature_name = Unset
    /\ called = {}
    /\ result = NoResult
    /\ self_count = Unset
    /\ params_count = None
    /\ params_typename = None
    /\ describe = NoRequest
    /\ kw_count = Unset
    /\ pc = "idle"
    /\ bboxes = <<>>
    /\ idx = 1
    /\ gdfs = <<>>
    /\ leaves = <<>>
    /\ gdf = <<>>
    /\ hits_exact = TRUE
    /\ pass = NoPass
    /\ race = NoRace

NextOpt ==
    \/ \E name \in TypeNames, kw \in CountKw, clip \in ClipKw :
          CallWith(name, kw, clip)
    \/ Sample
    \/ Split
    \/ Leaf
    \/ Raise
    \/ Finish

OptSpec == InitOpt /\ [][NextOpt]_vars

\* ------------------------------------- titles and other keyword arguments
\* the title of a feature type whose technical name is another
Titles == {PyStr("T")}

\* a keyword argument of get_feature that is neither count nor clip_gdf:
\* maxfeatures, not passed or an int
MaxFeaturesArg == {Unset, PyInt(1)}

NextKeyword ==
    \/ \E name \in {PyStr("F")} \cup Titles, mf \in MaxFeaturesArg :
          CallSet(name, Unset, Unset, mf)
    \/ Split
    \/ Leaf
    \/ Raise
    \/ Finish

KeywordSpec == InitOpt /\ [][NextKeyword]_vars

\* ----------------------------------------------- __split_bbox on its own
\* every Rect with minX <= maxX and minY <= maxY over the coordinates
Rects ==
    {r \in (0..MaxCoord) \X (0..MaxCoord) \X (0..MaxCoord) \X (0..MaxCoord) :
        r[1] <= r[3] /\ r[2] <= r[4]}

InitSplit ==
    /\ cls = "WFS"
    /\ hits_advertised = TRUE
    /\ cap = 2
    /\ feats \in {f \in Layouts : \A i \in 1..NFeat : f[i] = <<0, 0>>}
    /\ maxfeatures_kw = None
    /\ maxfeatures = InitMaxFeatures(cls, maxfeatures_kw, cap)
    /\ capabilities = Served(<<Entry(PyStr("F"), PyStr("F"), None)>>)
    /\ kwargs = [username |-> FALSE, password |-> FALSE, version |-> Unset,
                 bbox |-> Unset]
    /\ init_requests = init(cls, kwargs, capabilities).requests
    /\ version = init(cls, kwargs, capabilities).version
    /\ operations = init(cls, kwargs, capabilities).operations
    /\ feature_types = init(cls, kwargs, capabilities).feature_types
    /\ self_bboxes = None
    /\ default_bbox = None
    /\ bbox_crs = given_crs(self_bboxes)
    /\ missing_default_bbox = TRUE
    /\ error = NoError
    /\ self_clip_gdf = Unset
    /\ kw_clip_gdf = Unset
    /\ feature_name = Unset
    /\ called = {}
    /\ result = NoResult
    /\ self_count = Unset
    /\ params_count = None
    /\ params_typename = None
    /\ describe = NoRequest
    /\ kw_count = Unset
    /\ pc = "split_in"
    /\ \E r \in Rects :
          \/ bboxes = << <<str_int(r[1]), str_int(r[2]),
                           str_int(r[3]), str_int(r[4])>> >>
          \/ bboxes = << <<str_float(r[1]), str_float(r[2]),
                           str_float(r[3]), str_float(r[4])>> >>
    /\ idx = 1
    /\ gdfs = <<>>
    /\ leaves = <<>>
    /\ gdf = <<>>
    /\ hits_exact = TRUE
    /\ pass = NoPass
    /\ race = NoRace

\* for bb in self.__split_bbox(bbox): bboxes.append(bb)
ApplySplit ==
    /\ pc = "split_in"
    /\ bboxes' = bboxes \o split_bbox(bboxes[1])
    /\ pc' = "split_out"
    /\ UNCHANGED <<session, race, seed, options, error, result, self_count,
                   params_count, params_typename, describe, kw_count, idx,
                   gdfs, leaves, gdf, hits_exact, pass>>

NextSplit == ApplySplit

SplitSpec == InitSplit /\ [][NextSplit]_vars

\* ------------------------------------------ two calls on one client at once
\* two threads call get_feature on one client that was given its bbox at
\* construction; neither call passes an option.  A thread switch may come
\* between any two statements of __get_features_gdf
Threads == {1, 2}

\* the locals of a call that has copied self.bboxes and stands before its
\* first pass; params is the copy WFSClient builds its request on
Thread(name) ==
    [name |-> name, pc |-> "hits", params |-> [bbox |-> None, type |-> None],
     bboxes |-> self_bboxes[2], idx |-> 1, gdfs |-> <<>>, sent |-> <<>>,
     gdf |-> <<>>]

\* the rows the server holds of a feature type in a bbox: both types of the
\* model have their features at the same places
Rows(type, bbox) ==
    [k \in 1..Len(Response(bbox, None)) |-> <<type, Response(bbox, None)[k]>>]

\* the dict a fetch builds its request on: params = self.__params in WFS,
\* params = self.__params.copy() in WFSClient
Dict(t) == IF cls = "WFS" THEN race.params ELSE race.th[t].params

\* params[key] = value, on the client's dict or on the thread's copy
Written(t, d) ==
    IF cls = "WFS" THEN [race EXCEPT !.params = d]
    ELSE [race EXCEPT !.th[t].params = d]

InitRace ==
    /\ cls \in {"WFS", "WFSClient"}
    /\ hits_advertised = TRUE
    /\ cap = NFeat
    /\ feats \in {f \in Layouts :
                     \A i \in 1..NFeat : f[i] = IF i = 1 THEN <<0, 0>>
                                                ELSE <<MaxCoord, 2>>}
    /\ maxfeatures_kw = PyInt(NFeat - 1)
    /\ maxfeatures = InitMaxFeatures(cls, maxfeatures_kw, cap)
    /\ capabilities =
          Served(<<Entry(PyStr("F"), PyStr("F"), <<0, 0, 2, MaxCoord>>),
                   Entry(PyStr("G"), PyStr("G"), <<0, 0, MaxCoord, 2>>)>>)
    /\ kwargs = [username |-> FALSE, password |-> FALSE, version |-> Unset,
                 bbox |-> PyList(<<0, 0, MaxCoord, 2>>)]
    /\ init_requests = init(cls, kwargs, capabilities).requests
    /\ version = init(cls, kwargs, capabilities).version
    /\ operations = init(cls, kwargs, capabilities).operations
    /\ feature_types = init(cls, kwargs, capabilities).feature_types
    /\ self_bboxes = init(cls, kwargs, capabilities).bboxes
    /\ default_bbox = init(cls, kwargs, capabilities).default_bbox
    /\ bbox_crs = given_crs(self_bboxes)
    /\ missing_default_bbox =
           init(cls, kwargs, capabilities).missing_default_bbox
    /\ error = NoError
    /\ self_clip_gdf = Unset
    /\ kw_clip_gdf = Unset
    /\ feature_name = Unset
    /\ called = {}
    /\ result = NoResult
    /\ self_count = Unset
    /\ params_count = None
    /\ params_typename = None
    /\ describe = NoRequest
    /\ kw_count = Unset
    /\ pc = "idle"
    /\ bboxes = <<>>
    /\ idx = 1
    /\ gdfs = <<>>
    /\ leaves = <<>>
    /\ gdf = <<>>
    /\ hits_exact = TRUE
    /\ pass = NoPass
    /\ race = NoRace

\* everything but race and the typename entry of self.__params
single == <<session, seed, options, error, result, self_count, params_count,
            describe, kw_count, pc, bboxes, idx, gdfs, leaves, gdf,
            hits_exact, pass>>

\* the two threads enter get_feature
RaceCall(first, second) ==
    /\ pc = "idle"
    /\ race.th = <<>>
    /\ race' = [race EXCEPT !.th = <<Thread(first), Thread(second)>>]
    /\ UNCHANGED <<single, params_typename>>

\* __get_hits of a pass: its params are the thread's own
RaceHits(t) ==
    /\ t \in DOMAIN race.th
    /\ race.th[t].pc = "hits"
    /\ LET me == race.th[t]
           asked == [resulttype |-> "hits", rect |-> me.bboxes[me.idx],
                     bbox |-> me.bboxes[me.idx], type |-> me.name]
       IN  IF OverMax(NumberMatched(me.bboxes[me.idx]))
           THEN /\ Len(me.bboxes) < 1 + 2 * MaxSplits
                /\ race' = [race EXCEPT
                       !.th[t].bboxes = @ \o split_bbox(me.bboxes[me.idx]),
                       !.th[t].idx = @ + 1,
                       !.th[t].sent = Append(@, asked)]
           ELSE race' = [race EXCEPT !.th[t].pc = "bbox",
                                     !.th[t].sent = Append(@, asked)]
    /\ UNCHANGED <<single, params_typename>>

\* params['bbox'] = ','.join(bbox)
RaceWriteBbox(t) ==
    /\ t \in DOMAIN race.th
    /\ race.th[t].pc = "bbox"
    /\ race' = [Written(t, [Dict(t) EXCEPT
                               !.bbox = race.th[t].bboxes[race.th[t].idx]])
                   EXCEPT !.th[t].pc = "type"]
    /\ UNCHANGED <<single, params_typename>>

\* params['typeName'] = feature_name / params['typeNames'] = feature_name
RaceWriteType(t) ==
    /\ t \in DOMAIN race.th
    /\ race.th[t].pc = "type"
    /\ race' = [Written(t, [Dict(t) EXCEPT !.type = race.th[t].name])
                   EXCEPT !.th[t].pc = "send"]
    /\ UNCHANGED <<single, params_typename>>

\* the url is prepared from params as they are now, the answer is read and
\* appended to gdfs
RaceSend(t) ==
    /\ t \in DOMAIN race.th
    /\ race.th[t].pc = "send"
    /\ LET me == race.th[t]
           d == Dict(t)
       IN  race' = [race EXCEPT
               !.th[t].gdfs = Append(@, Rows(d.type, d.bbox)),
               !.th[t].sent = Append(@, [resulttype |-> "results",
                                         rect |-> me.bboxes[me.idx],
                                         bbox |-> d.bbox, type |-> d.type]),
               !.th[t].idx = @ + 1,
               !.th[t].pc = IF me.idx + 1 > Len(me.bboxes) THEN "concat"
                            ELSE "hits"]
    /\ UNCHANGED <<single, params_typename>>

\* concat, drop_duplicates, and __descripe_feature with its typename
RaceFinish(t) ==
    /\ t \in DOMAIN race.th
    /\ race.th[t].pc = "concat"
    /\ race' = [race EXCEPT
           !.th[t].gdf = drop_duplicates(concat(race.th[t].gdfs)),
           !.th[t].pc = "done"]
    /\ params_typename' = IF cls = "WFS" \/ version \in {v1_0_0, v1_1_0}
                          THEN race.th[t].name ELSE params_typename
    /\ UNCHANGED single

NextRace ==
    \/ \E first \in TypeNames, second \in TypeNames : RaceCall(first, second)
    \/ \E t \in Threads : RaceHits(t)
    \/ \E t \in Threads : RaceWriteBbox(t)
    \/ \E t \in Threads : RaceWriteType(t)
    \/ \E t \in Threads : RaceSend(t)
    \/ \E t \in Threads : RaceFinish(t)

RaceSpec == InitRace /\ [][NextRace]_vars

\* the frame a call for a feature type gives when no other call runs: the
\* loop of get_feature over the copy of self.bboxes
RECURSIVE Sequential(_, _, _, _)
Sequential(name, queue, i, frames) ==
    IF i > Len(queue) THEN drop_duplicates(concat(frames))
    ELSE IF OverMax(NumberMatched(queue[i]))
    THEN IF Len(queue) < 1 + 2 * MaxSplits
         THEN Sequential(name, queue \o split_bbox(queue[i]), i + 1, frames)
         ELSE <<"unfinished">>
    ELSE Sequential(name, queue, i + 1, Append(frames, Rows(name, queue[i])))

\* --------------------------------------------- the bbox given at construction
\* the lists of 4 coordinates a caller passes as bbox: the corners in either
\* order on each axis, and Rects without extent
BboxLists ==
    {PyList(<<a, b, c, d>>) : a \in {0, MaxCoord}, b \in {0, 2},
                              c \in {0, MaxCoord}, d \in {0, 2}}

InitRect ==
    /\ cls \in {"WFS", "WFSClient"}
    /\ cap = 2
    /\ feats \in {f \in Layouts :
                     \A i \in 1..NFeat : f[i] = IF i = 1 THEN <<0, 0>>
                                                ELSE <<MaxCoord, 2>>}
    /\ maxfeatures_kw = None
    /\ maxfeatures = 0
    /\ kwargs \in [username : {FALSE}, password : {FALSE},
                    version : {Unset}, bbox : {Unset} \cup BboxLists]
    /\ capabilities =
          Served(<<Entry(PyStr("F"), PyStr("F"), <<0, 0, MaxCoord, 2>>)>>)
    /\ hits_advertised = TRUE
    /\ init_requests = <<>>
    /\ version = <<>>
    /\ operations = <<>>
    /\ feature_types = <<>>
    /\ self_bboxes = None
    /\ default_bbox = None
    /\ bbox_crs = given_crs(self_bboxes)
    /\ missing_default_bbox = TRUE
    /\ error = NoError
    /\ self_clip_gdf = Unset
    /\ kw_clip_gdf = Unset
    /\ feature_name = Unset
    /\ called = {}
    /\ result = NoResult
    /\ self_count = Unset
    /\ params_count = None
    /\ params_typename = None
    /\ describe = NoRequest
    /\ kw_count = Unset
    /\ pc = "new"
    /\ bboxes = <<>>
    /\ idx = 1
    /\ gdfs = <<>>
    /\ leaves = <<>>
    /\ gdf = <<>>
    /\ hits_exact = TRUE
    /\ pass = NoPass
    /\ race = NoRace

NextRect ==
    \/ Construct
    \/ CallWith(PyStr("F"), Unset, Unset)
    \/ Split
    \/ Leaf
    \/ Raise
    \/ Finish

RectSpec == InitRect /\ [][NextRect]_vars

\* ------------------------------------------------------ geometry of Rects
\* the number a coordinate string spells
Num(bbox) == <<float(bbox[1]), float(bbox[2]), float(bbox[3]), float(bbox[4])>>

\* lattice points of the closed Rect
Points(bbox) ==
    {<<x, y>> : x \in float(bbox[1])..float(bbox[3]),
                y \in float(bbox[2])..float(bbox[4])}

\* unit cells of the Rect, named by their lower left corner
Cells(bbox) ==
    {<<x, y>> : x \in float(bbox[1])..(float(bbox[3]) - 1),
                y \in float(bbox[2])..(float(bbox[4]) - 1)}

Area(bbox) ==
    (float(bbox[3]) - float(bbox[1])) * (float(bbox[4]) - float(bbox[2]))

ValidRect(bbox) ==
    float(bbox[1]) <= float(bbox[3]) /\ float(bbox[2]) <= float(bbox[4])

Range(seq) == {seq[i] : i \in 1..Len(seq)}

Occurrences(seq, x) == Cardinality({i \in 1..Len(seq) : seq[i] = x})

\* the starting Rect of the running call
StartRect == bboxes[1]

\* ------------------------------------------------------------------ claims
\* the call runs the partition loop: no count is in effect
Partitioned == self_count \in {Unset, None}

\* C1: when WFS.get_feature, run without count with maxfeatures at its
\* default against a server that answered every hits exchange exactly and
\* truncates GetFeature answers to its cap, returns, the deduplicated frame
\* holds exactly the features that intersect the starting Rect, each once.
C1_CompleteOnce ==
    (/\ cls = "WFS" /\ pc = "done" /\ Partitioned
     /\ maxfeatures_kw = None /\ hits_exact)
    => /\ Range(gdf) = Matching(StartRect)
       /\ \A f \in Matching(StartRect) : Occurrences(gdf, f) = 1

\* the Rects the loop has still to handle
Pending == SubSeq(bboxes, idx, Len(bboxes))

\* the Rects of a list that hold the cell, or the lattice point
Holding(list, c) == {i \in 1..Len(list) : c \in Cells(list[i])}

\* C4: at every step of the partition loop the pending Rects together with
\* the Rects fetched as leaves cover the starting Rect exactly and have
\* pairwise disjoint interiors; when the loop is exhausted the leaves alone
\* form that cover.
C4_Cover ==
    (pc \in {"loop", "done", "raised"} /\ Partitioned)
    => LET parts == Pending \o leaves
       IN  /\ \A c \in Cells(StartRect) : Cardinality(Holding(parts, c)) = 1
           /\ \A i \in 1..Len(parts) :
                 ValidRect(parts[i]) /\ Points(parts[i]) \subseteq Points(StartRect)
           /\ \A q \in Points(StartRect) :
                 \E i \in 1..Len(parts) : q \in Points(parts[i])
           /\ (pc = "done" => Pending = <<>>)

\* the loop has split twice and fetched a leaf, with Rects still pending
C4_Witness ==
    /\ pc = "loop" /\ Partitioned
    /\ Len(bboxes) >= 5 /\ Len(leaves) >= 1 /\ Len(Pending) >= 2

\* C5: for every Rect R with minX <= maxX and minY <= maxY, __split_bbox(R)
\* returns exactly two Rects whose union is R, whose areas sum to the area
\* of R and which meet only in the edge they share.
C5_SplitPartitions ==
    pc = "split_out"
    => LET R == bboxes[1]
           b1 == bboxes[2]
           b2 == bboxes[3]
           meet == Points(b1) \cap Points(b2)
       IN  /\ Len(bboxes) = 3
           /\ ValidRect(b1) /\ ValidRect(b2)
           /\ Points(b1) \cup Points(b2) = Points(R)
           /\ Cells(b1) \cup Cells(b2) = Cells(R)
           /\ Cells(b1) \cap Cells(b2) = {}
           /\ Area(b1) + Area(b2) = Area(R)
           /\ \/ /\ float(b1[3]) = float(b2[1])
                 /\ meet = {q \in Points(R) : q[1] = float(b1[3])}
              \/ /\ float(b1[4]) = float(b2[2])
                 /\ meet = {q \in Points(R) : q[2] = float(b1[4])}

\* a Rect of positive area was split into two Rects of positive area
C5_Witness ==
    /\ pc = "split_out"
    /\ Area(bboxes[2]) > 0 /\ Area(bboxes[3]) > 0
    /\ Area(bboxes[2]) # Area(bboxes[3])

\* m is the float nearest to the midpoint of lo and hi
IsMidpoint(m, lo, hi) ==
    /\ lo <= m /\ m <= hi
    /\ 2 * m - (lo + hi) \in {-1, 0, 1}

\* C6: __split_bbox bisects along the longer axis at the midpoint: when
\* width >= height it halves the x-extent and keeps minY and maxY, when
\* width < height it halves the y-extent and keeps minX and maxX; a square
\* Rect is split on the x-extent.
C6_LongerAxis ==
    pc = "split_out"
    => LET R == Num(bboxes[1])
           b1 == Num(bboxes[2])
           b2 == Num(bboxes[3])
       IN  IF R[3] - R[1] >= R[4] - R[2]
           THEN /\ IsMidpoint(b1[3], R[1], R[3])
                /\ b1 = <<R[1], R[2], b1[3], R[4]>>
                /\ b2 = <<b1[3], R[2], R[3], R[4]>>
           ELSE /\ IsMidpoint(b1[4], R[2], R[4])
                /\ b1 = <<R[1], R[2], R[3], b1[4]>>
                /\ b2 = <<R[1], b1[4], R[3], R[4]>>

\* a square Rect of positive width was split
C6_Witness ==
    /\ pc = "split_out"
    /\ float(bboxes[1][3]) - float(bboxes[1][1]) = 2
    /\ float(bboxes[1][4]) - float(bboxes[1][2]) = 2
    /\ float(bboxes[2][3]) - float(bboxes[2][1]) = 1

\* C2: WFSClient.get_features against a server that does not advertise hits
\* and truncates GetFeature answers to its cap, with maxfeatures taken from
\* the capabilities: for every true count above the cap the returned frame
\* holds every feature that intersects the starting Rect.
C2_NoRowLost ==
    (/\ cls = "WFSClient" /\ ~hits_advertised /\ maxfeatures_kw = None
     /\ pc = "done" /\ NumberMatched(StartRect) > cap)
    => Matching(StartRect) \subseteq Range(gdf)

\* a pass of the partition loop is taken by this step
LoopPass == pc = "loop" /\ idx <= Len(bboxes) /\ pass' # pass

\* C3: the record set of a Rect is added to gdfs only if the count obtained
\* for that Rect was <= maxfeatures; a Rect whose count was > maxfeatures
\* adds no record set and its two halves are appended to the queue in its
\* place.
C3_LeafOnlyUnderMax ==
    [][/\ (gdfs' # gdfs /\ gdfs' # <<>>)
          => /\ LoopPass
             /\ pass'.at = idx
             /\ pass'.hits * 100 <= maxfeatures
             /\ gdfs' = Append(gdfs, gdfs'[Len(gdfs')])
             /\ Range(gdfs'[Len(gdfs')]) \subseteq Matching(bboxes[idx])
             /\ leaves' = Append(leaves, bboxes[idx])
             /\ bboxes' = bboxes /\ idx' = idx + 1
       /\ (LoopPass /\ pass'.act # "raise"
              /\ pass'.hits * 100 > maxfeatures)
          => /\ gdfs' = gdfs /\ leaves' = leaves
             /\ bboxes' = bboxes \o split_bbox(bboxes[idx])
             /\ idx' = idx + 1
      ]_vars

\* WFSClient without hits has split a Rect and then fetched a leaf
C3_Witness ==
    /\ cls = "WFSClient" /\ ~hits_advertised
    /\ pc = "loop" /\ pass.act = "leaf" /\ Len(bboxes) >= 3
    /\ Len(gdfs) >= 1

\* an exchange list holds a hits answer that could not be read
BadHits(exchanges) ==
    \E k \in 1..Len(exchanges) :
        exchanges[k].resulttype = "hits" /\ ~exchanges[k].ok

\* an exchange list holds a GetFeature payload that could not be parsed
FailedFetch(exchanges) ==
    \E k \in 1..Len(exchanges) :
        exchanges[k].resulttype = "results" /\ ~exchanges[k].ok

\* C9: whenever the hits exchange for a Rect returns an answer that is
\* unparsable or has no numberMatched, the call does not fail: the count is
\* taken from a full fetch of the Rect and the planner continues (WFS, and
\* WFSClient on a server that advertises hits).
C9_HitsFallback ==
    BadHits(pass.reqs)
    => /\ pass.src = "fetch"
       /\ Len(pass.reqs) >= 2
       /\ pass.reqs[2].resulttype = "results"
       /\ pass.reqs[2].bbox = pass.reqs[1].bbox
       /\ (pc = "raised" => FailedFetch(pass.reqs))

\* C10: if the GetFeature payload of a Rect cannot be parsed, get_feature
\* raises at that Rect: the Rect is not fetched again, no further Rect is
\* handled and no frame is returned; the next thing the client does is a
\* new call.
C10_FetchFailureAborts ==
    /\ [](FailedFetch(pass.reqs)
            => /\ pc = "raised"
               /\ gdf = <<>>
               /\ idx = pass.at
               /\ ~pass.reqs[Len(pass.reqs)].ok
               /\ \A k \in 1..(Len(pass.reqs) - 1) :
                     pass.reqs[k].resulttype = "results" => pass.reqs[k].ok)
    /\ [][pc = "raised"
            => /\ pc' \in {"loop", "sample"}
               /\ pass' = NoPass /\ gdfs' = <<>> /\ idx' = 1
               /\ bboxes' = self_bboxes[2]]_vars

\* a fetch failed after a leaf had been fetched and with Rects still queued
C10_Witness ==
    /\ pc = "raised" /\ FailedFetch(pass.reqs)
    /\ Len(gdfs) >= 1 /\ idx < Len(bboxes)

\* the Rects obtained from a Rect by d bisections
RECURSIVE RectsAtDepth(_, _)
RectsAtDepth(bbox, d) ==
    IF d = 0 THEN {bbox}
    ELSE LET halves == split_bbox(bbox)
         IN  RectsAtDepth(halves[1], d - 1) \cup RectsAtDepth(halves[2], d - 1)

\* the counts the client can obtain for a Rect: numberMatched of a hits
\* answer, or the length of a fetched frame
ObtainableCounts(bbox) ==
    IF cls = "WFS"
    THEN {NumberMatched(bbox), Len(Response(bbox, RowCap(None)))}
    ELSE IF hits_advertised THEN {NumberMatched(bbox)}
    ELSE {Len(Response(bbox, None))}

UnderMaxAtDepth(d) ==
    \A b \in RectsAtDepth(StartRect, d) :
        \A c \in ObtainableCounts(b) : c * 100 <= maxfeatures

\* the deepest full bisection tree the model follows: 2^d - 1 <= MaxSplits
DepthBound ==
    CHOOSE d \in 0..MaxSplits :
        2 ^ d - 1 <= MaxSplits /\ 2 ^ (d + 1) - 1 > MaxSplits

\* C7: if there is a depth d such that every Rect obtained from the starting
\* Rect by d bisections has a count <= maxfeatures, the partition loop
\* eventually empties its queue and the call returns (or an exchange that
\* cannot be read raises out of it).  The loop has no other stop condition:
\* a call that returned has handled every Rect of its queue, each one split
\* or fetched as a leaf, and a call leaves the loop early only by raising on
\* an exchange.
C7_Terminates ==
    /\ (pc = "loop" /\ \E d \in 0..DepthBound : UnderMaxAtDepth(d))
          ~> (pc \in {"done", "raised"})
    /\ []((pc = "done" /\ Partitioned)
            => /\ idx = Len(bboxes) + 1
               /\ 2 * Len(leaves) = Len(bboxes) + 1
               /\ Len(gdfs) = Len(leaves))
    /\ []((pc = "raised" /\ Partitioned)
            => BadHits(pass.reqs) \/ FailedFetch(pass.reqs))

\* a call returned after two levels of bisection that its counts demanded
C7_Witness ==
    /\ pc = "done" /\ Partitioned
    /\ Len(bboxes) = 7
    /\ \E d \in 0..DepthBound : UnderMaxAtDepth(d)

\* C8: on a server without exact-count support and a starting Rect whose
\* true count is <= maxfeatures, get_feature (WFS) and get_features
\* (WFSClient) obtain the count by a full fetch, split nothing, and the call
\* that returns returns the rows of that Rect.
C8_FallbackConverges ==
    (/\ Partitioned /\ pass.at = 1 /\ pass.src = "fetch"
     /\ NumberMatched(StartRect) * 100 <= maxfeatures)
    => /\ pass.reqs[Len(pass.reqs)].resulttype = "results"
       /\ pass.reqs[Len(pass.reqs)].bbox = StartRect
       /\ pass.act # "split"
       /\ bboxes = <<StartRect>>
       /\ (pc = "done" => gdf = SortedSeq(Matching(StartRect)))

\* ------------------------------------------------ claims on construction
\* C11: constructing WFS or WFSClient with exactly one of username and
\* password raises before any request is sent to the service; with both or
\* with neither, construction sends the capabilities request.
C11_CredentialsFirst ==
    pc # "new" =>
        IF kwargs.username # kwargs.password
        THEN /\ pc = "init_raised"
             /\ error = Exception("ValueError", "username and password")
             /\ init_requests = <<>>
        ELSE init_requests # <<>> /\ Head(init_requests) = "GetCapabilities"

\* a constructor given a username alone has raised
C11_Witness ==
    /\ pc = "init_raised" /\ kwargs.username /\ ~kwargs.password
    /\ init_requests = <<>>

\* the version is among the versions the server advertises
Advertised(v) ==
    /\ capabilities.AcceptVersions # None
    /\ \E i \in 1..Len(capabilities.AcceptVersions) :
          capabilities.AcceptVersions[i] = v

\* C12: constructing a client (WFS or WFSClient) with a caller-specified
\* version that is not among the versions the server advertises fails at
\* construction with the unsupported-version error; the session never holds
\* a caller-specified version that is not advertised.
C12_UnsupportedVersion ==
    (/\ pc # "new"
     /\ kwargs.username = kwargs.password
     /\ kwargs.version # Unset
     /\ ~Advertised(kwargs.version))
    => /\ pc = "init_raised"
       /\ error = Exception("ValueError", "version not supported")

\* the numbers a version string spells
Numbers(v) == <<ord(v[1]) - ord("0"), ord(v[3]) - ord("0"), ord(v[5]) - ord("0")>>

\* version a is lower than version b, number by number
Lower(a, b) ==
    \/ Numbers(a)[1] < Numbers(b)[1]
    \/ Numbers(a)[1] = Numbers(b)[1] /\ Numbers(a)[2] < Numbers(b)[2]
    \/ /\ Numbers(a)[1] = Numbers(b)[1] /\ Numbers(a)[2] = Numbers(b)[2]
       /\ Numbers(a)[3] < Numbers(b)[3]

\* no advertised version is higher, as a string or as numbers
Highest(v) ==
    /\ Advertised(v)
    /\ \A i \in 1..Len(capabilities.AcceptVersions) :
          /\ ~str_lt(v, capabilities.AcceptVersions[i])
          /\ ~Lower(v, capabilities.AcceptVersions[i])

\* a WFS client constructed without a version
Chose == pc \notin {"new", "init_raised"} /\ cls = "WFS" /\ kwargs.version = Unset

Passed == [i \in 1..Len(kwargs.bbox[2]) |-> str_int(kwargs.bbox[2][i])]

\* the bbox the caller passed is the starting Rect and the default bbox
Adopted ==
    /\ error # Exception("ValueError", "bbox must be a list")
    /\ pc # "init_raised"
        => /\ self_bboxes = PyList(<<Passed>>)
           /\ default_bbox = Passed
           /\ bboxes # <<>> => bboxes[1] = Passed
           /\ pass.at = 1 => \A k \in 1..Len(pass.reqs) :
                                 pass.reqs[k].bbox = Passed

\* C14 as stated: constructing a client with a bbox that does not have
\* exactly 4 coordinates raises an error at construction; a bbox of exactly 4
\* coordinates is accepted and becomes both the starting Rect of every fetch
\* and the default (clip) bbox.
C14_BboxOfFour ==
    (pc # "new" /\ kwargs.bbox # Unset)
    => IF Len(kwargs.bbox[2]) # 4 THEN pc = "init_raised" ELSE Adopted

\* C14, amended: constructing a client with a bbox that is not a list, or
\* that is a list without exactly 4 coordinates, raises an error at
\* construction; a list of exactly 4 coordinates is accepted and becomes
\* both the starting Rect of every fetch and the default (clip) bbox.
C14_ListOfFour ==
    (pc # "new" /\ kwargs.bbox # Unset)
    => IF kwargs.bbox[1] # "list" \/ Len(kwargs.bbox[2]) # 4
       THEN pc = "init_raised"
       ELSE Adopted

\* a call of a client constructed with a list of 4 coordinates has made its
\* first pass
C14_Witness ==
    /\ kwargs.bbox = PyList(<<0, 0, MaxCoord, 2>>)
    /\ pass.at = 1
    /\ pass.reqs[1].bbox = Passed
    /\ default_bbox = Passed

\* ------------------------------------------------- claims on the bbox seed
\* the capabilities advertise no bbox for the feature type
NoBboxAdvertised(name) ==
    \A i \in 1..Len(capabilities.FeatureTypes) :
        capabilities.FeatureTypes[i].name = name
            => capabilities.FeatureTypes[i].bbox = None

\* nothing but the bbox could make the constructor raise
Constructible ==
    /\ kwargs.username = kwargs.password
    /\ kwargs.version = Unset \/ Advertised(kwargs.version)
    /\ \A i \in 1..Len(capabilities.FeatureTypes) :
          capabilities.FeatureTypes[i].name # None
    /\ \A i \in 1..Len(capabilities.Operations) :
          capabilities.Operations[i].name # None

\* C15: when the caller supplied no bbox and the server advertises none for
\* a feature type, construction still succeeds and the first get_feature
\* call for that type fails with the missing-bounding-box error before any
\* hits or GetFeature request is issued.
C15_MissingBbox ==
    [][/\ (pc = "new" /\ kwargs.bbox = Unset /\ Constructible)
            => pc' = "idle"
       /\ (/\ pc \in {"idle", "done", "raised"}
           /\ kwargs.bbox = Unset
           /\ called' # called
           /\ NoBboxAdvertised(feature_name'))
            => /\ pc' = "raised"
               /\ error' = Exception("ValueError",
                                     "Could not find bounding box")
               /\ pass' = NoPass]_vars

\* ---------------------------------------------------- claims on discovery
\* the keyword arguments give the constructor no reason to raise
ArgsAccepted ==
    /\ kwargs.username = kwargs.password
    /\ kwargs.version = Unset \/ Advertised(kwargs.version)
    /\ kwargs.bbox = Unset
          \/ (kwargs.bbox[1] = "list" /\ Len(kwargs.bbox[2]) = 4)

\* the name is in the catalog
Catalogued(name, catalog) == \E k \in 1..Len(catalog) : catalog[k] = name

\* C16: during capabilities discovery at construction, a feature-type or
\* operation entry that cannot be parsed (for example one without a name) is
\* skipped: construction does not fail, and every well-formed entry before
\* and after it is present in the catalog.  This holds for WFS and for
\* WFSClient.
C16_MalformedSkipped ==
    (pc # "new" /\ ArgsAccepted)
    => /\ pc # "init_raised"
       /\ \A i \in 1..Len(capabilities.FeatureTypes) :
             capabilities.FeatureTypes[i].name # None
                => Catalogued(capabilities.FeatureTypes[i].name, feature_types)
       /\ \A i \in 1..Len(capabilities.Operations) :
             capabilities.Operations[i].name # None
                => Catalogued(capabilities.Operations[i].name, operations)

\* ------------------------------------------------ claims on the options
\* C17: WFS.get_feature called with count = n bypasses partitioning: it
\* issues exactly one GetFeature exchange, for the starting Rect, carrying
\* the row cap n (parameter maxfeatures under 1.0.0/1.1.0, count otherwise),
\* and issues no hits exchange and performs no split.
C17_CountBypasses ==
    [][/\ (/\ cls = "WFS"
           /\ pc \in {"idle", "done", "raised"}
           /\ kw_count' \notin {Unset, None}
           /\ error' = NoError)
            => pc' = "sample" /\ pass' = NoPass
       /\ (pc = "sample" /\ kw_count \notin {Unset, None})
            => /\ pc' \in {"done", "raised"}
               /\ bboxes' = bboxes
               /\ bboxes = self_bboxes[2]
               /\ Len(bboxes) = 1
               /\ gdfs' = <<>>
               /\ Len(pass'.reqs) = 1
               /\ pass'.reqs[1].resulttype = "results"
               /\ pass'.reqs[1].bbox = bboxes[1]
               /\ pass'.reqs[1].count = kw_count
               /\ pass'.reqs[1].param =
                     IF version = v1_0_0 \/ version = v1_1_0
                     THEN PyStr("maxfeatures") ELSE PyStr("count")]_vars

\* a call with count = 1 under 1.1.0 returned its sample
C17_Witness ==
    /\ cls = "WFS"
    /\ version = v1_1_0
    /\ kw_count = PyInt(1)
    /\ pc = "done"
    /\ pass.act = "sample"
    /\ pass.reqs[1].param = PyStr("maxfeatures")
    /\ Len(gdf) = 1

\* C18: the options of a get_feature call apply to that call only: for any
\* sequence of calls on one client, a call that passes neither clip nor
\* count runs with clip = true and count = null (full partitioned fetch),
\* whatever options earlier calls passed.
C18_OptionsPerCall ==
    [][(/\ pc \in {"idle", "done", "raised"}
        /\ kw_count' = Unset
        /\ kw_clip_gdf' = Unset
        /\ error' = NoError)
        => /\ pc' = "loop"
           /\ self_count' \in {Unset, None}
           /\ self_clip_gdf' # PyBool(FALSE)]_vars

\* the geometry lies inside the box
Within(g, b) == b[1] <= g[1] /\ b[2] <= g[2] /\ g[3] <= b[3] /\ g[4] <= b[4]

\* the running call asked for clipping: clip_gdf=True, or no clip_gdf at all
ClipRequested == kw_clip_gdf \in {Unset, PyBool(TRUE)}

\* C19: whenever clipping is requested, a default bbox exists (supplied by
\* the caller or derived from the capabilities for the feature type) and the
\* result is non-empty, get_feature clips the result to that bbox, so that
\* no returned geometry extends beyond the bbox bounds.
C19_ClippedToDefault ==
    (/\ cls = "WFS"
     /\ pc = "done"
     /\ ClipRequested
     /\ default_bbox # None
     /\ Len(gdf) > 0)
    => \A k \in 1..Len(result.rows) :
           Within(result.rows[k].geometry, Num(default_bbox))

\* the names the frame has before the truncation step: renamed, with xTid
Renamed ==
    [i \in 1..Len(Schema) |-> replace_dot(Schema[i])] \o << <<"xTid">> >>

\* C20: every attribute name in the result returned by get_feature (WFS)
\* and get_features (WFSClient) has at most 30 characters: a name longer
\* than 30 is cut to its first 30 characters and a name of 30 or fewer is
\* unchanged by the truncation step.
C20_NamesTruncated ==
    pc = "done" =>
        /\ Len(result.columns) = Len(Renamed)
        /\ \A i \in 1..Len(result.columns) :
              /\ Len(result.columns[i]) <= NameLimit
              /\ result.columns[i] =
                    IF Len(Renamed[i]) > NameLimit
                    THEN SubSeq(Renamed[i], 1, NameLimit)
                    ELSE Renamed[i]

\* ------------------------------------------------------------------ C21
\* construction has returned a client
Constructed == pc \notin {"new", "init_raised"}

\* C21: when the caller gives no maxfeatures, the split threshold used by
\* WFS is 90% of the MaxFeatures value of the capabilities response (the
\* CountDefault constraint), with 10000 taken as that value when the
\* constraint is absent or unreadable; when the caller gives an integer
\* maxfeatures, that value is the threshold.  (maxfeatures is in hundredths.)
C21_NinetyPercent ==
    (cls = "WFS" /\ Constructed) =>
        maxfeatures =
            IF maxfeatures_kw # None THEN maxfeatures_kw[2] * 100
            ELSE IF capabilities.CountDefault[1] = "int"
            THEN capabilities.CountDefault[2] * 90
            ELSE 10000 * 90

\* ------------------------------------------------------------------ C22
\* C22: every hits and GetFeature request issued during get_feature(F)
\* carries exactly one feature-type parameter, named typeName with value F
\* when the session version is 1.0.0 or 1.1.0 and typeNames with value F
\* otherwise; no feature-type parameter left over from an earlier call or
\* from an earlier DescribeFeatureType request appears in it.
C22_OneTypeParameter ==
    \A k \in 1..Len(pass.reqs) :
        pass.reqs[k].types =
            {<<IF version \in {v1_0_0, v1_1_0} THEN "typeName"
               ELSE "typeNames", feature_name>>}

\* ------------------------------------------------------------------ C23
\* the running call of WFS was given a title of the translation table
CalledByTitle ==
    /\ cls = "WFS"
    /\ feature_name # Unset
    /\ WFS_feature_translations(capabilities, feature_name) # None

\* C23: when WFS.get_feature is called with the title of a feature type, it
\* issues its hits, GetFeature and DescribeFeatureType requests with the
\* technical name that the title-to-name table built at construction gives
\* for that title.
C23_TitleTranslated ==
    CalledByTitle =>
        /\ \A k \in 1..Len(pass.reqs) :
              <<TypeKey, WFS_feature_translations(capabilities, feature_name)>>
                  \in pass.reqs[k].types
        /\ describe # NoRequest =>
              <<"typename",
                WFS_feature_translations(capabilities, feature_name)>>
                  \in describe.types

\* ------------------------------------------------------------------ C24
\* C24: when two get_feature calls run concurrently on the same client and
\* neither changes the session configuration, then in every interleaving
\* each call builds its requests only from its own feature type and its own
\* Rects, and each call's result equals the result the same call gives when
\* the two calls run one after the other.
C24_CallsIsolated ==
    \A t \in DOMAIN race.th :
        /\ \A k \in 1..Len(race.th[t].sent) :
              /\ race.th[t].sent[k].type = race.th[t].name
              /\ race.th[t].sent[k].bbox = race.th[t].sent[k].rect
        /\ race.th[t].pc = "done" =>
              race.th[t].gdf =
                  Sequential(race.th[t].name, self_bboxes[2], 1, <<>>)

\* ------------------------------------------------------------------ C25
\* C25: get_feature leaves the session configuration unchanged (URL,
\* version, credentials, feature cap, debug flag, extra static query
\* parameters), for any options it is called with and whether it returns or
\* raises.  (Of the configuration the model holds the version, the
\* credentials, the threshold, and the entries of self.__params.)
C25_ConfigUnchanged ==
    [][/\ version' = version
       /\ kwargs' = kwargs
       /\ maxfeatures' = maxfeatures
       /\ params_count' = params_count
       /\ params_typename' = params_typename]_vars

\* ------------------------------------------------------------------ C26
\* C26: every bbox used for splitting, for request building and for clipping
\* is in EPSG:25832: a bbox taken from the capabilities, where it is in
\* EPSG:4326, is reprojected to EPSG:25832 exactly once when it is resolved.
\* This holds for WFS and for WFSClient.
C26_Projected ==
    /\ [](bboxes # <<>> => bbox_crs = EPSG_25832)
    /\ [][(/\ self_bboxes = None
           /\ self_bboxes' # None
           /\ feature_name' \in TypeNames)
          => \E i \in 1..Len(capabilities.FeatureTypes) :
                /\ capabilities.FeatureTypes[i].name = feature_name'
                /\ capabilities.FeatureTypes[i].bbox # None
                /\ Num(self_bboxes'[2][1]) =
                       to_crs(capabilities.FeatureTypes[i].bbox)]_vars

\* ------------------------------------------------------------------ C27
\* C27: after WFS.get_feature(F, count=n) has returned, a later call that
\* explicitly passes count=None performs the full partitioned fetch and none
\* of its GetFeature requests carries a row-cap parameter (count or
\* maxfeatures).  A row cap is in self.__params only after a call with
\* count=n.
C27_ExplicitNone ==
    (cls = "WFS" /\ kw_count = None /\ params_count # None) =>
        /\ pc # "sample"
        /\ pass.act # "sample"
        /\ \A k \in 1..Len(pass.reqs) :
              /\ pass.reqs[k].param = None
              /\ pass.reqs[k].count = None

\* ------------------------------------------------------------------ C28
\* the bbox the capabilities advertise for the feature type
AdvertisedBbox(name) ==
    Listed(name)[Len(Listed(name))].bbox

\* the bbox a client resolves for the feature type from the capabilities
Resolved(name) ==
    IF cls = "WFS" THEN to_crs(AdvertisedBbox(name))
    ELSE AdvertisedBbox(name)

\* C28: on a client constructed without a bbox, every get_feature(F) call
\* seeds its queue with F's own advertised bounding box, also when an
\* earlier call on the same client was for a different feature type G; the
\* queue is never seeded from an earlier call's bbox or from its splits.
C28_OwnSeed ==
    (kwargs.bbox = Unset /\ bboxes # <<>> /\ feature_name \in TypeNames)
        => Num(bboxes[1]) = Resolved(feature_name)

\* ---------------------------------------------------------------- C29
\* the rows of the leading k record sets, one record set after the other
RECURSIVE RowsOfFirst(_, _)
RowsOfFirst(frames, k) ==
    IF k = 0 THEN <<>> ELSE RowsOfFirst(frames, k - 1) \o frames[k]

\* the Rects of seq stand in bbs at rising positions, the first at from or
\* further on
RECURSIVE InQueueOrder(_, _, _)
InQueueOrder(seq, bbs, from) ==
    \/ seq = <<>>
    \/ \E k \in from..Len(bbs) :
          /\ bbs[k] = Head(seq)
          /\ \A j \in from..(k - 1) : bbs[j] # Head(seq)
          /\ InQueueOrder(Tail(seq), bbs, k + 1)

\* C29: the partition loop handles the queued Rects first in, first out, one
\* per pass and each exactly once: a pass handles the Rect at idx, moves idx
\* on by one unless it raises, and the queue grows only at its tail.  When
\* the loop is exhausted the record sets number the splits plus one, so the
\* list handed to pd.concat is never empty, and the frame of the call is the
\* record sets in the order their Rects were handled, equal rows dropped
\* after the first.
C29_FifoOnce ==
    /\ [][/\ LoopPass
             => /\ pass'.at = idx
                /\ idx' = IF pass'.act = "raise" THEN idx ELSE idx + 1
                /\ SubSeq(bboxes', 1, Len(bboxes)) = bboxes
                /\ Len(gdfs') + (Len(bboxes') - 1) \div 2 = idx' - 1
          /\ idx' # idx => (LoopPass \/ (pc # "loop" /\ idx' = 1))
          /\ (bboxes' # bboxes /\ pc = "loop") => LoopPass
         ]_vars
    /\ []((pc = "loop" /\ idx > Len(bboxes))
            => /\ gdfs # <<>>
               /\ Len(gdfs) = (Len(bboxes) - 1) \div 2 + 1)
    /\ []((pc = "done" /\ Partitioned)
            => /\ Len(gdfs) = (Len(bboxes) - 1) \div 2 + 1
               /\ InQueueOrder(leaves, bboxes, 1)
               /\ \A k \in 1..Len(gdfs) :
                     Range(gdfs[k]) \subseteq Matching(leaves[k])
               /\ gdf = drop_duplicates(RowsOfFirst(gdfs, Len(gdfs))))

\* a call returned after two splits, with rows in more than one record set
C29_Witness ==
    /\ pc = "done" /\ Partitioned
    /\ Len(bboxes) = 5 /\ Len(gdfs) = 3
    /\ Cardinality({k \in 1..3 : gdfs[k] # <<>>}) >= 2

\* ---------------------------------------------------------------- C30
\* the Rects the client and the queue of its call hold
HeldRects ==
    (IF self_bboxes = None THEN {} ELSE Range(self_bboxes[2]))
        \cup (IF default_bbox = None THEN {} ELSE {default_bbox})
        \cup Range(bboxes)

\* C30: every Rect held by the client or by the queue of the partition loop
\* has minX <= maxX and minY <= maxY, whatever list of 4 coordinates the
\* constructor accepted as bbox; a split keeps it so, and leaves the Rect it
\* was given, the Rects queued before it and the client's own Rects as they
\* were.
C30_RectsValid ==
    /\ [](\A r \in HeldRects : ValidRect(r))
    /\ [][(LoopPass /\ pass'.act = "split")
            => /\ SubSeq(bboxes', 1, Len(bboxes)) = bboxes
               /\ self_bboxes' = self_bboxes
               /\ default_bbox' = default_bbox
               /\ \A k \in (Len(bboxes) + 1)..Len(bboxes') :
                     ValidRect(bboxes[idx]) => ValidRect(bboxes'[k])
         ]_vars

\* the constructor accepted a bbox whose corners are in the wrong order
C30_Inverted ==
    /\ pc \notin {"new", "init_raised"}
    /\ kwargs.bbox # Unset
    /\ kwargs.bbox[2][1] > kwargs.bbox[2][3]

====
